---- MODULE Spec2Model ----
(***************************************************************************)
(* Model of the saferr Requestor/Responder pair: the Requestor send path   *)
(* (requestor.go), the Responder dispatch loop (responder, part_001), the  *)
(* pooled request envelopes (req.go), the pool of Resps (resp.go), the     *)
(* correlated reply channel with its forwarder goroutine (correlatedChan)  *)
(* and the closed flags.                                                   *)
(*                                                                         *)
(* The send path and the dispatch loop name the reply channel of a req as  *)
(* req.ch; the envelope of req.go holds it as req.c, a *correlatedChan.    *)
(* The model reads req.ch as that handle: the Responder's push goes to the *)
(* inbound side (recCh, correlatedChan.send) and the Requestor's receive   *)
(* takes from the outbound side (dstCh, getReceiverChan).                  *)
(*                                                                         *)
(* A req is a pooled object that the Requestor re-rents while the          *)
(* Responder may still hold a pointer to it.  The Responder's reads of     *)
(* req.ch, req.data and req.id are therefore separate steps, each reading  *)
(* the value the field holds at that moment.                               *)
(*                                                                         *)
(* Timers are not measured: a timer whose case is in a select may elapse   *)
(* whenever the select is waiting.  The variable ev records the last call  *)
(* of Send or ListenAndHandle that returned (or the last Resp a Send       *)
(* discarded), with what it returned; expect and quiet record, for the     *)
(* Send in progress, what the handler returned for its request and whether *)
(* the Responder loop has run since the Send was called after Close.       *)
(***************************************************************************)
EXTENDS Integers, Sequences, FiniteSets, TLC

\* ---------------------------------------------------------------- bounds
\* Concurrent callers of Send, pooled req objects, pooled correlated chans.
Callers == {1, 2}
\* A single caller, whose Sends follow one another (Spec, SpecCalm).
Sequential == {1}
ReqObjs == {1, 2}
ChanObjs == {1, 2}
\* Pooled Resp objects (SpecResp).
RespObjs == {1, 2}
\* Pooled timers (SpecTimer), and the durations they are acquired for.
TimerObjs == {1, 2}
TimerDurations == {1, 2}
\* Contexts that call Close concurrently.
Closers == {1, 2}
\* Ids are issued while the counter is below these; the counter starts at 1, so
\* they allow MaxId - 1 rentals under SpecOpen, MaxIdLife - 1 under Spec,
\* MaxIdCalm - 1 under SpecCalm, MaxIdOrder - 1 under SpecOrder and MaxIdChild - 1
\* under SpecChild.
MaxId == 3
MaxIdLife == 2
MaxIdCalm == 7
MaxIdOrder == 4
MaxIdChild == 4
\* Capacity of the shared work channel (Options.ChanSize, default 100).
ChanSize == 2
\* Capacity of a correlated chan's inbound buffer (Options.CorrelatedChanSize, default 10).
CorrelatedChanSize == 1
\* Forwarder retries (Options.CorrelatedChanRetries, default 5).
CorrelatedChanRetries == 1
\* Options.ResponderTimeout and Options.RequestorGoneAwayTimeout in ticks of the
\* model's clock (defaults 1 s and 2 min), and the tick at which the clock stops.
ResponderTimeout == 1
GoneAwayTimeout == 2
MaxTime == 5
\* Ghost Resps that the sender of the correlated-chan test sends (99 in the test).
MaxGhosts == 3
\* Stand-in for math.MaxUint64 in the id generator (above every id the bounds allow).
UintMax == 15

\* ------------------------------------------------------- program constants
\* attemptSend gives up after this many elapsed submit timers.
maxAttempts == 3
\* The handler of TestNewComms_4 panics on every K-th invocation.
PanicEvery == 2
\* The caller's token as Send finds it: cancelled (TRUE) or live.
AnyToken == BOOLEAN
LiveToken == {FALSE}
\* TestCorrelatedChan_1: the id the chan is rented for and the value every Resp
\* carries; the ghost ids stand for 0..98.
TestId == 99
TestData == 99
GhostIds == {0, TestId - 1}
\* The payload each caller submits; UnknownChoice is the payload calc refuses.
Payload(c) == c
UnknownChoice == 2

\* ------------------------------------------------------------------ values
Nil == 0
ErrNil == "nil"
ErrHandler == "HandlerErr"
ErrSendTimeout == "SendTimeout"
ErrRequestorIsClosed == "RequestorClosed"
ErrResponderIsClosed == "ResponderClosed"
ErrCommsChannelIsClosed == "CommsChannelClosed"
ErrContextCompleted == "ContextCompleted"
ErrUncaughtHandlerPanic == "UncaughtHandlerPanic"
ErrRequestorGoneAway == "RequestorGoneAway"
ErrUnableToSendRequest == "UnableToSendRequest"
ErrUncaughtSendPanic == "UncaughtSendPanic"

VARIABLES
  pc,          \* [Callers -> "idle" | "submit" | "recv"]: position of each Send; "rent"
               \*   and "put" inside reqPool.Get and reqPool.Put where these are taken
               \*   step by step
  creq,        \* [Callers -> ReqObjs \cup {Nil}]: the req the Send has rented
  attempts,    \* [Callers -> Nat]: elapsed submit timers of the Send
  stamp,       \* [Callers -> Nat]: the id stamped on the Send's req when it was rented
  quiet,       \* [Callers -> BOOLEAN]: the Send was called after Close, or after the
               \*   dispatch loop ended, with no ListenAndHandle call in progress
               \*   then or made since
  rq,          \* [ReqObjs -> [id, data, c]]: the fields of each req object
  counter,     \* the id generator's counter
  ch,          \* the shared work channel: Seq of [r: req pointer, sid: id at push,
               \*   n: which push of all it was, c: the caller that pushed]
  done,        \* the done signal is closed
  rclosed,     \* the Requestor's closed flag
  sclosed,     \* the Responder's closed flag
  parentDone,  \* the pair's parent token is cancelled
  cid,         \* [ChanObjs -> Nat]: expected id of each correlated chan
  nreq,        \* req objects the pool's New has made so far (objects 1..nreq)
  nchan,       \* correlated chans the pool's New has made so far (objects 1..nchan)
  recCh,       \* [ChanObjs -> Seq(Resp)]: inbound buffer
  fpc,         \* [ChanObjs -> "wait" | "got" | "fwd"]: forwarder position
  fcur,        \* [ChanObjs -> Resp]: the Resp the forwarder holds
  fretries,    \* [ChanObjs -> Nat]: forwarder retries for fcur
  rpc,         \* Responder position: "idle" | "closedReply" | "call" | "running" | "halted",
               \*   and under SpecClock "listen" (waiting in the select) | "ended"
  rreq,        \* the req pointer the Responder popped
  rsid,        \* id the popped entry had when it was pushed
  rchan,       \* handle: the ch captured at the start of handle
  rout,        \* the handler's pending outcome [data, err, panics]
  reqCount,    \* handler invocations so far, modulo PanicEvery
  initialised, \* the gone-away deadline was initialised (initialise.Do ran)
  expired,     \* time.Now() is after hasGoneAway
  sawClosed,   \* the Responder's closed flag was set when the call in progress was made
  expect,      \* [Callers -> record]: what the handler returned for the caller's pending request
  ev,          \* the last event: a Send returned or discarded a Resp, or a
               \*   ListenAndHandle or Close call returned
  once,        \* the Responder's sync.Once has run its function
  cpanic,      \* a close of the already closed done signal has panicked
  cpc,         \* [Closers -> "idle" | "once"]: position of each Close call
  now,         \* the clock (SpecClock)
  hasGoneAway, \* responder.hasGoneAway, the gone-away deadline (SpecClock)
  ldue,        \* the tick at which the listen timer of the call in progress elapses
  lcall,       \* the tick at which handle last returned
  pushes,      \* pushes onto the work channel so far
  popped,      \* which push of all put the entry that the Responder received last
  tleft,       \* ghost Resps the sender of the correlated-chan test has still to send
  tmatch,      \* that sender has sent the Resp with the expected id
  tgot,        \* the Resps the receiver of that test has obtained
  respOut,     \* Resps rented from the Resp pool and not put back
  fidle,       \* [ChanObjs -> BOOLEAN]: the chan's expected id was 0 when its
               \*   forwarder took the Resp it received last from the inbound side
  hseen,       \* ids of the Sends on whose payload the handler has been invoked
  hagain,      \* ids of the Sends on whose payload it has been invoked more than once
  rs,          \* the Resp objects that the pool's New has made so far (SpecResp), in
               \*   the order of their making: a sequence of [id, data, err, returner];
               \*   returner: the return hook is set
  rpool,       \* for each of them, how many times it is in the Resp pool
  rlast,       \* the last call on the Resp pool: [op, x, put]
  tm,          \* the *time.Timer objects that the pool's New has made so far
               \*   (SpecTimer), in the order of their making: a sequence of
               \*   [armed, due, fire]: the runtime timer is set, when it is due, a
               \*   value is waiting in t.C
  tpool,       \* the timers that are in timerPool
  tclock,      \* the clock of SpecTimer
  tacq,        \* for each timer, [d, at]: the acquireTimer(d) that handed it out, and
               \*   when
  thist,       \* for each timer, how it came to its holder: "fresh" from New, or from
               \*   the pool after a release that "stopped" it, "drained" it or found
               \*   its fire "read"
  tread        \* for each timer, whether the holder has received from t.C

callerVars == <<pc, creq, attempts, stamp, quiet>>
poolVars == <<rq, counter, cid, nreq, nchan>>
flagVars == <<done, rclosed, sclosed, parentDone>>
fwdVars == <<recCh, fpc, fcur, fretries>>
respVars == <<rpc, rreq, rsid, rchan, rout, reqCount, initialised, expired, sawClosed>>

closeVars == <<once, cpanic, cpc>>
\* State of the parts that the Send path and the dispatch loop leave alone.
clockVars == <<now, hasGoneAway, ldue, lcall>>
orderVars == <<pushes, popped>>
testVars == <<tleft, tmatch, tgot>>
sideVars == <<closeVars, clockVars, orderVars, testVars>>

\* The Resp pool taken on its own, with Resps as objects.
respUnit == <<rs, rpool, rlast>>
\* The timer pool taken on its own.
timerUnit == <<tm, tpool, tclock, tacq, thist, tread>>
unitVars == <<respUnit, timerUnit>>
\* What the actions of the pair leave alone: what is recorded of the past for the
\* properties of the pools and forwarders, and the pools taken on their own.
histVars == <<fidle, hseen, hagain, unitVars>>

\* The state of the pair.
pairVars == <<callerVars, poolVars, flagVars, fwdVars, respVars, ch, expect, ev, sideVars,
              respOut>>

vars == <<pairVars, histVars>>

\* -------------------------------------------------------------- envelopes
Resp(id, data, err) == [id |-> id, data |-> data, err |-> err]
NoResp == Resp(0, Nil, ErrNil)
NoCall == [op |-> "none", x |-> Nil, put |-> FALSE]

\* A putter that would leave the return hook in place.
EmptyRespHooked == [id |-> 0, data |-> Nil, err |-> ErrNil, returner |-> TRUE]
\* The putter's reset, x.data, x.err, x.returner, x.id = nil, nil, nil, 0.
EmptyResp == [id |-> 0, data |-> Nil, err |-> ErrNil, returner |-> FALSE]
EmptyReq == [id |-> 0, data |-> Nil, c |-> Nil]
NoOut == [data |-> Nil, err |-> ErrNil, panics |-> FALSE]
NoExpect == [set |-> FALSE, data |-> Nil, err |-> ErrNil]
NoEv == [kind |-> "none", c |-> Nil, data |-> Nil, err |-> ErrNil, rid |-> 0, sid |-> 0,
         cancelled |-> FALSE, quiet |-> FALSE, exp |-> NoExpect,
         sawClosed |-> FALSE, handled |-> FALSE, panicked |-> FALSE,
         again |-> FALSE, overlap |-> FALSE, afterDone |-> FALSE]

\* A Send of caller c returned (nil, err) without a Resp; cancelled: one of its
\* tokens was cancelled when it was called; q: see quiet.
SendFailed(c, err, cancelled, q) ==
  [NoEv EXCEPT !.kind = "failed", !.c = c, !.err = err, !.cancelled = cancelled,
               !.quiet = q]

\* A Send of caller c returned (r.data, r.err) of the Resp r it received, its req
\* stamped sid; exp is what the handler returned for its request.
SendReceived(c, r, sid, q, exp) ==
  [NoEv EXCEPT !.kind = "received", !.c = c, !.data = r.data, !.err = r.err, !.rid = r.id,
               !.sid = sid, !.quiet = q, !.exp = exp]

\* A Send of caller c, its req stamped sid, closed the Resp r and went on waiting.
SendDiscarded(c, r, sid) ==
  [NoEv EXCEPT !.kind = "discarded", !.c = c, !.rid = r.id, !.sid = sid]

\* A ListenAndHandle call returned err; it was made with the closed flag as given,
\* and it did or did not run the handler, which did or did not panic; afterDone:
\* the done signal was closed when it returned.
LAHReturned(err, closedAtCall, handled, panicked) ==
  [NoEv EXCEPT !.kind = "lah", !.err = err, !.sawClosed = closedAtCall,
               !.handled = handled, !.panicked = panicked, !.afterDone = done]

\* A Close call of context p returned; again: its once.Do found the function
\* already run; overlap: another Close call was in progress then.
CloseReturned(p, again, overlap) ==
  [NoEv EXCEPT !.kind = "close", !.c = p, !.again = again, !.overlap = overlap]

\* A setClosed that would flip the flag.
setClosedToggle(cur) == ~cur
\* commsBase.setClosed: the flag is stored true whatever it held.
setClosed(cur) == TRUE

\* A generator without the guard, whose counter overflows to zero, and one that
\* would stay at the maximum.
incrementerOverflow(c) == (c + 1) % (UintMax + 1)
incrementerStuck(c) == IF c = UintMax THEN c ELSE c + 1
\* A generator that would reset its counter to 1 before it increments it.
incrementerSkipsOne(c) == IF c = UintMax THEN 2 ELSE c + 1
\* getIncrementer: the closure's body, from the counter to the id it issues.
incrementer(c) == IF c = UintMax THEN 1 ELSE c + 1

\* sync.Pool of req objects and of correlated chans: Get hands out an object that
\* was Put back, or the next one that New makes.
RentedReqs == {creq[c] : c \in Callers}
RentedChans == {rq[creq[c]].c : c \in {d \in Callers : creq[d] # Nil /\ pc[d] # "put"}}
FreeReqs == {r \in ReqObjs : r <= nreq + 1} \ RentedReqs
\* A chan pool that would hand out a chan that is rented.
FreeChansShared == {k \in ChanObjs : k <= nchan + 1}
FreeChans == {k \in ChanObjs : k <= nchan + 1} \ RentedChans
Made(n, x) == IF x > n THEN x ELSE n
\* The objects of a pool with the x-th set to v: one that was made before, or the
\* next one, which New makes.
WithObj(f, x, v) == IF x <= Len(f) THEN [f EXCEPT ![x] = v] ELSE Append(f, v)

\* ---------------------------------------------------------------- Init
Init ==
  /\ pc = [c \in Callers |-> "idle"]
  /\ creq = [c \in Callers |-> Nil]
  /\ attempts = [c \in Callers |-> 0]
  /\ stamp = [c \in Callers |-> 0]
  /\ quiet = [c \in Callers |-> FALSE]
  /\ rq = [r \in ReqObjs |-> EmptyReq]
  /\ counter = 1
  /\ ch = <<>>
  /\ done = FALSE
  /\ rclosed = FALSE
  /\ sclosed = FALSE
  /\ parentDone = FALSE
  /\ cid = [k \in ChanObjs |-> 0]
  /\ nreq = 0
  /\ nchan = 0
  /\ recCh = [k \in ChanObjs |-> <<>>]
  /\ fpc = [k \in ChanObjs |-> "wait"]
  /\ fcur = [k \in ChanObjs |-> NoResp]
  /\ fretries = [k \in ChanObjs |-> 0]
  /\ rpc = "idle"
  /\ rreq = Nil
  /\ rsid = 0
  /\ rchan = Nil
  /\ rout = NoOut
  /\ reqCount = 0
  /\ initialised = FALSE
  /\ expired = FALSE
  /\ sawClosed = FALSE
  /\ expect = [c \in Callers |-> NoExpect]
  /\ ev = NoEv
  /\ once = FALSE
  /\ cpanic = FALSE
  /\ cpc = [p \in Closers |-> "idle"]
  /\ now = 0
  /\ hasGoneAway = 0
  /\ ldue = 0
  /\ lcall = 0
  /\ pushes = 0
  /\ popped = 0
  /\ tleft = 0
  /\ tmatch = FALSE
  /\ tgot = <<>>
  /\ respOut = 0
  /\ fidle = [k \in ChanObjs |-> FALSE]
  /\ hseen = {}
  /\ hagain = {}
  /\ rs = <<>>
  /\ rpool = <<>>
  /\ rlast = NoCall
  /\ tm = <<>>
  /\ tpool = {}
  /\ tclock = 0
  /\ tacq = <<>>
  /\ thist = <<>>
  /\ tread = <<>>

\* ------------------------------------------------------------ Resp pool
\* A close that would not hand the Resp back.
RespPutLost(n) == n
\* respPool.Get rents a Resp; resp.close calls the returner that Get installed,
\* the pool's putter, which clears the Resp and puts it back.
RespGet(n) == n + 1
RespPut(n) == n - 1

\* The Resps a getter can be asked for.
RespIds == 1..MaxId
RespData == {Nil, 1}
RespErrs == {ErrNil, ErrHandler}

\* sync.Pool.Get of the Resp pool: an object that is in the pool, or the next
\* one that New makes.
nresp == Len(rs)
PooledResps == {x \in 1..nresp : rpool[x] > 0} \cup {x \in RespObjs : x = nresp + 1}

\* respPool.Get(id, u, err): r := p.Get(); r.data, r.err, r.returner, r.id =
\* u, err, putter, id.
RespPoolGet(id, u, err) ==
  /\ \E x \in PooledResps :
       /\ rs' = WithObj(rs, x, [id |-> id, data |-> u, err |-> err, returner |-> TRUE])
       /\ rpool' = WithObj(rpool, x, IF x <= nresp THEN rpool[x] - 1 ELSE 0)
       /\ rlast' = [op |-> "get", x |-> x, put |-> FALSE]
  /\ UNCHANGED <<pairVars, fidle, hseen, hagain, timerUnit>>

\* resp.close on the object x, by a holder of a pointer to it: the returner, if
\* set, is the putter, which resets the object and puts it in the pool.
RespClose(x) ==
  /\ x <= nresp
  /\ IF rs[x].returner
       THEN /\ rs' = [rs EXCEPT ![x] = EmptyResp]
            /\ rpool' = [rpool EXCEPT ![x] = rpool[x] + 1]
            /\ rlast' = [op |-> "close", x |-> x, put |-> TRUE]
       ELSE /\ rlast' = [op |-> "close", x |-> x, put |-> FALSE]
            /\ UNCHANGED <<rs, rpool>>
  /\ UNCHANGED <<pairVars, fidle, hseen, hagain, timerUnit>>

\* ------------------------------------------------------------ timer pool
\* time.NewTimer(0) at the time now: the timer is due at once.  ran: the runtime
\* has already run it, and its value is waiting in t.C, by the time the caller
\* goes on.
NewTimer(now0, ran) == [armed |-> ~ran, due |-> now0, fire |-> ran]

\* t.Reset(d) at the time now: the timer is set to run after d.  async: the
\* timer's channel is the buffered one of Go before 1.23 (and of later builds
\* with asynctimerchan=1), where a value that is already in t.C stays there; the
\* unbuffered channel of Go 1.23 and later never shows a value from before the
\* Reset.
Reset(t, d, now0, async) ==
  [armed |-> TRUE, due |-> now0 + d, fire |-> async /\ t.fire]

\* t.Stop(): the timer is not set any more; the result is whether it was.
Stop(t) == [t EXCEPT !.armed = FALSE]

\* select { case <-t.C: default: }
Drain(t) == [t EXCEPT !.fire = FALSE]

\* Timers the holders have, from acquireTimer until releaseTimer.
ntimer == Len(tm)
HeldTimers == {x \in 1..ntimer : x \notin tpool}

\* acquireTimer(d): t := timerPool.Get().(*time.Timer), a timer of the pool or
\* one that New makes with time.NewTimer(0); t.Reset(d); return t.
acquireTimer(d) ==
  /\ \E async \in BOOLEAN :
       \/ \E x \in tpool :
            /\ tm' = [tm EXCEPT ![x] = Reset(tm[x], d, tclock, async)]
            /\ tpool' = tpool \ {x}
            /\ tacq' = [tacq EXCEPT ![x] = [d |-> d, at |-> tclock]]
            /\ tread' = [tread EXCEPT ![x] = FALSE]
            /\ UNCHANGED thist
       \/ \E x \in TimerObjs, ran \in BOOLEAN :
            /\ x = ntimer + 1
            /\ tm' = Append(tm, Reset(NewTimer(tclock, ran), d, tclock, async))
            /\ tacq' = Append(tacq, [d |-> d, at |-> tclock])
            /\ thist' = Append(thist, "fresh")
            /\ tread' = Append(tread, FALSE)
            /\ UNCHANGED tpool
  /\ UNCHANGED <<tclock, pairVars, fidle, hseen, hagain, respUnit>>

\* The runtime runs a timer that is set and due: its value goes to t.C.
TimerRun(x) ==
  /\ x \in HeldTimers
  /\ tm[x].armed
  /\ tclock >= tm[x].due
  /\ tm' = [tm EXCEPT ![x] = [@ EXCEPT !.armed = FALSE, !.fire = TRUE]]
  /\ UNCHANGED <<tpool, tclock, tacq, thist, tread>>
  /\ UNCHANGED <<pairVars, fidle, hseen, hagain, respUnit>>

\* The holder's case <-timer.C: of its select.
TimerRecv(x) ==
  /\ x \in HeldTimers
  /\ tm[x].fire
  /\ tm' = [tm EXCEPT ![x] = Drain(@)]
  /\ tread' = [tread EXCEPT ![x] = TRUE]
  /\ UNCHANGED <<tpool, tclock, tacq, thist>>
  /\ UNCHANGED <<pairVars, fidle, hseen, hagain, respUnit>>

\* releaseTimer(t): if !t.Stop() { select { case <-t.C: default: } };
\* timerPool.Put(t).
releaseTimer(x) ==
  /\ x \in HeldTimers
  /\ tm' = [tm EXCEPT ![x] = IF tm[x].armed THEN Stop(@) ELSE Drain(Stop(@))]
  /\ thist' = [thist EXCEPT ![x] = IF tm[x].armed THEN "stopped"
                                   ELSE IF tm[x].fire THEN "drained" ELSE "read"]
  /\ tpool' = tpool \cup {x}
  /\ UNCHANGED <<tclock, tacq, tread>>
  /\ UNCHANGED <<pairVars, fidle, hseen, hagain, respUnit>>

\* Time passes.
TimerTick ==
  /\ tclock < MaxTime
  /\ tclock' = tclock + 1
  /\ UNCHANGED <<tm, tpool, tacq, thist, tread>>
  /\ UNCHANGED <<pairVars, fidle, hseen, hagain, respUnit>>

\* ------------------------------------------------------------- req pool
\* reqPool.Get: a pooled req r is stamped with the next id, the payload and a
\* correlated chan k rented for that id (correlatedChanPool.Get sets its id).
ReqGetRq(r, k, t) == [rq EXCEPT ![r] = [id |-> incrementer(counter), data |-> t, c |-> k]]
ReqGetCid(k) == [cid EXCEPT ![k] = incrementer(counter)]

\* A Put that would leave the req as it is.
ReqPutRqKept(r) == rq
\* reqPool.Put: the chan goes back with its expected id zeroed, the req is cleared.
ReqPutRq(r) == [rq EXCEPT ![r] = EmptyReq]
ReqPutCid(r) == [cid EXCEPT ![rq[r].c] = 0]

\* ------------------------------------------------------------ Requestor
\* A Send that rented a req returns, which is the event e; the deferred
\* reqPool.Put runs.
Return(c, e) ==
  /\ pc' = [pc EXCEPT ![c] = "idle"]
  /\ attempts' = [attempts EXCEPT ![c] = 0]
  /\ creq' = [creq EXCEPT ![c] = Nil]
  /\ stamp' = [stamp EXCEPT ![c] = 0]
  /\ quiet' = [quiet EXCEPT ![c] = FALSE]
  /\ rq' = ReqPutRq(creq[c])
  /\ cid' = ReqPutCid(creq[c])
  /\ expect' = [expect EXCEPT ![c] = NoExpect]
  /\ ev' = e
  /\ UNCHANGED <<nreq, nchan>>

\* A pre-check that would test the closed flag before the tokens, and one that
\* would not test the flag at all.
PreCheckClosedFirst(ctxDone) ==
  IF rclosed THEN ErrRequestorIsClosed
  ELSE IF parentDone \/ ctxDone THEN ErrContextCompleted
  ELSE ErrNil
PreCheckNoFlag(ctxDone) ==
  IF parentDone \/ ctxDone THEN ErrContextCompleted ELSE ErrNil
\* Send's select on both tokens and its test of the closed flag: the error that
\* ends the call before attemptSend, if any.
PreCheck(ctxDone) ==
  IF parentDone \/ ctxDone THEN ErrContextCompleted
  ELSE IF rclosed THEN ErrRequestorIsClosed
  ELSE ErrNil

\* The Responder side has shut when a Send is called: Close has run and no
\* ListenAndHandle call is in progress, or the dispatch loop has ended.
Shut == (done /\ rpc = "idle") \/ rpc = "ended"

\* Send, up to the first wait of attemptSend; ids are issued below limit, and
\* the caller's token is cancelled or not as tokens allows.
SendCall(c, limit, tokens) ==
  /\ pc[c] = "idle"
  /\ \E ctxDone \in tokens :
       IF PreCheck(ctxDone) # ErrNil
         THEN /\ rclosed' = IF parentDone \/ ctxDone THEN setClosed(rclosed) ELSE rclosed
              /\ ev' = SendFailed(c, PreCheck(ctxDone), parentDone \/ ctxDone, Shut)
              /\ UNCHANGED <<callerVars, poolVars, expect>>
         ELSE /\ counter < limit
              /\ \E r \in FreeReqs, k \in FreeChans :
                   /\ rq' = ReqGetRq(r, k, Payload(c))
                   /\ cid' = ReqGetCid(k)
                   /\ creq' = [creq EXCEPT ![c] = r]
                   /\ nreq' = Made(nreq, r)
                   /\ nchan' = Made(nchan, k)
              /\ counter' = incrementer(counter)
              /\ stamp' = [stamp EXCEPT ![c] = incrementer(counter)]
              /\ quiet' = [quiet EXCEPT ![c] = Shut]
              /\ pc' = [pc EXCEPT ![c] = "submit"]
              /\ attempts' = [attempts EXCEPT ![c] = 0]
              /\ expect' = [expect EXCEPT ![c] = NoExpect]
              /\ UNCHANGED <<rclosed, ev>>
  /\ UNCHANGED <<ch, done, sclosed, parentDone, fwdVars, respVars>>
  /\ UNCHANGED sideVars
  /\ UNCHANGED respOut
  /\ UNCHANGED histVars

\* reqPool.Get as the getter's statements follow one another, for a Send whose
\* tokens are live.  First r := p.Get(); r.id = incrementer(); r.data = t: the
\* req holds its new id and payload, and the handle that Put cleared.
RentStamp(c, limit) ==
  /\ pc[c] = "idle"
  /\ PreCheck(FALSE) = ErrNil
  /\ counter < limit
  /\ \E r \in FreeReqs :
       /\ rq' = [rq EXCEPT ![r].id = incrementer(counter), ![r].data = Payload(c)]
       /\ creq' = [creq EXCEPT ![c] = r]
       /\ nreq' = Made(nreq, r)
  /\ counter' = incrementer(counter)
  /\ stamp' = [stamp EXCEPT ![c] = incrementer(counter)]
  /\ quiet' = [quiet EXCEPT ![c] = Shut]
  /\ pc' = [pc EXCEPT ![c] = "rent"]
  /\ attempts' = [attempts EXCEPT ![c] = 0]
  /\ expect' = [expect EXCEPT ![c] = NoExpect]
  /\ UNCHANGED <<cid, nchan, ch, flagVars, fwdVars, respVars, ev>>
  /\ UNCHANGED sideVars
  /\ UNCHANGED respOut
  /\ UNCHANGED histVars

\* Then r.c = c.Get(r.id): a correlated chan is taken from its pool, its expected
\* id is set to the id the req was stamped with, and the req holds it.
RentChan(c) ==
  /\ pc[c] = "rent"
  /\ \E k \in FreeChans :
       /\ cid' = [cid EXCEPT ![k] = rq[creq[c]].id]
       /\ rq' = [rq EXCEPT ![creq[c]].c = k]
       /\ nchan' = Made(nchan, k)
  /\ pc' = [pc EXCEPT ![c] = "submit"]
  /\ UNCHANGED <<creq, attempts, stamp, quiet, counter, nreq, ch, flagVars, fwdVars,
                 respVars, expect, ev>>
  /\ UNCHANGED sideVars
  /\ UNCHANGED respOut
  /\ UNCHANGED histVars

\* reqPool.Put step by step, by a caller that holds a rented req (TestNewReqPool:
\* r := p.Get(&j); p.Put(r)).  First c.Put(x.c): the chan's expected id is zeroed
\* and the chan is in its pool again, while x.c still points to it.
ReqPoolPutChan(c) ==
  /\ pc[c] = "submit"
  /\ cid' = ReqPutCid(creq[c])
  /\ pc' = [pc EXCEPT ![c] = "put"]
  /\ UNCHANGED <<creq, attempts, stamp, quiet, rq, counter, nreq, nchan, ch, flagVars,
                 fwdVars, respVars, expect, ev>>
  /\ UNCHANGED sideVars
  /\ UNCHANGED respOut
  /\ UNCHANGED histVars

\* Then x.data, x.c, x.id = nil, nil, 0; p.Put(x).
ReqPoolPutReq(c) ==
  /\ pc[c] = "put"
  /\ rq' = ReqPutRq(creq[c])
  /\ creq' = [creq EXCEPT ![c] = Nil]
  /\ stamp' = [stamp EXCEPT ![c] = 0]
  /\ quiet' = [quiet EXCEPT ![c] = FALSE]
  /\ pc' = [pc EXCEPT ![c] = "idle"]
  /\ UNCHANGED <<attempts, cid, counter, nreq, nchan, ch, flagVars, fwdVars, respVars,
                 expect, ev>>
  /\ UNCHANGED sideVars
  /\ UNCHANGED respOut
  /\ UNCHANGED histVars

\* Submit loop, case <-r.done.
SubmitDone(c) ==
  /\ pc[c] = "submit"
  /\ done
  /\ rclosed' = setClosed(rclosed)
  /\ Return(c, SendFailed(c, ErrCommsChannelIsClosed, FALSE, quiet[c]))
  /\ UNCHANGED <<counter, ch, done, sclosed, parentDone, fwdVars, respVars>>
  /\ UNCHANGED sideVars
  /\ UNCHANGED respOut
  /\ UNCHANGED histVars

\* Submit loop, case r.ch <- req.
SubmitPush(c) ==
  /\ pc[c] = "submit"
  /\ Len(ch) < ChanSize
  /\ ch' = Append(ch, [r |-> creq[c], sid |-> rq[creq[c]].id, n |-> pushes + 1, c |-> c])
  /\ pushes' = pushes + 1
  /\ pc' = [pc EXCEPT ![c] = "recv"]
  /\ UNCHANGED <<creq, attempts, stamp, quiet, poolVars, flagVars, fwdVars, respVars,
                 expect, ev, closeVars, clockVars, popped>>
  /\ UNCHANGED testVars
  /\ UNCHANGED respOut
  /\ UNCHANGED histVars

\* A submit loop that would retry for ever, and one that would give up an attempt early.
GivesUpNever(n) == FALSE
GivesUpEarly(n) == n >= maxAttempts - 1
\* attempts++; if attempts >= maxAttempts: the submit loop gives up.
GivesUp(n) == n >= maxAttempts

\* Submit loop, case <-submitTimer.C.
SubmitTimeout(c) ==
  /\ pc[c] = "submit"
  /\ IF GivesUp(attempts[c] + 1)
       THEN Return(c, SendFailed(c, ErrUnableToSendRequest, FALSE, quiet[c]))
       ELSE /\ attempts' = [attempts EXCEPT ![c] = attempts[c] + 1]
            /\ UNCHANGED <<pc, creq, stamp, quiet, rq, cid, nreq, nchan, expect, ev>>
  /\ UNCHANGED <<counter, ch, flagVars, fwdVars, respVars>>
  /\ UNCHANGED sideVars
  /\ UNCHANGED respOut
  /\ UNCHANGED histVars

\* A timeout that would return no error, and one that would report a cancellation.
RecvTimeoutErrNone == ErrNil
RecvTimeoutErrCtx == ErrContextCompleted
\* Receive loop, case <-responseTimer.C: the error returned.
RecvTimeoutErr == ErrSendTimeout

\* Receive loop, case <-responseTimer.C.
RecvTimeout(c) ==
  /\ pc[c] = "recv"
  /\ Return(c, SendFailed(c, RecvTimeoutErr, FALSE, quiet[c]))
  /\ UNCHANGED <<counter, ch, flagVars, fwdVars, respVars>>
  /\ UNCHANGED sideVars
  /\ UNCHANGED respOut
  /\ UNCHANGED histVars

\* attemptSend's deferred calls when a panic unwinds it after the rental:
\* r.pool.Put(req) runs, then the recover of the first defer sets u = nil and
\* err = ErrUncaughtSendPanic.  No statement of attemptSend panics by itself;
\* the step stands for a panic raised while the Send is in one of its waits.
SendPanic(c) ==
  /\ pc[c] \in {"submit", "recv"}
  /\ Return(c, SendFailed(c, ErrUncaughtSendPanic, FALSE, quiet[c]))
  /\ UNCHANGED <<counter, ch, flagVars, fwdVars, respVars>>
  /\ UNCHANGED sideVars
  /\ UNCHANGED respOut
  /\ UNCHANGED histVars

\* A test that would accept every Resp.
IdMatchAny(respId, reqId) == TRUE
\* attemptSend's test of a received Resp against the rented req.
IdMatch(respId, reqId) == respId = reqId

\* Receive loop, case resp = <-req.ch: the forwarder of the req's chan hands its
\* Resp over (dstCh is unbuffered); a Resp with another id is closed and the loop
\* goes on, a matching one is returned and closed (resp.close on both paths).
RecvResp(c) ==
  /\ pc[c] = "recv"
  /\ LET k == rq[creq[c]].c
         r == fcur[k]
     IN /\ fpc[k] = "fwd"
        /\ fpc' = [fpc EXCEPT ![k] = "wait"]
        /\ fcur' = [fcur EXCEPT ![k] = NoResp]
        /\ fretries' = [fretries EXCEPT ![k] = 0]
        /\ IF IdMatch(r.id, rq[creq[c]].id)
             THEN Return(c, SendReceived(c, r, stamp[c], quiet[c], expect[c]))
             ELSE /\ ev' = SendDiscarded(c, r, stamp[c])
                  /\ UNCHANGED <<callerVars, rq, cid, nreq, nchan, expect>>
  /\ UNCHANGED <<counter, ch, flagVars, recCh, respVars>>
  /\ UNCHANGED sideVars
  /\ respOut' = RespPut(respOut)
  /\ UNCHANGED histVars

\* ------------------------------------------------- correlated chan forwarder
\* r := <-c.recCh
FwdRecv(k) ==
  /\ fpc[k] = "wait"
  /\ recCh[k] # <<>>
  /\ fcur' = [fcur EXCEPT ![k] = Head(recCh[k])]
  /\ recCh' = [recCh EXCEPT ![k] = Tail(recCh[k])]
  /\ fpc' = [fpc EXCEPT ![k] = "got"]
  /\ UNCHANGED <<callerVars, poolVars, flagVars, fretries, respVars, ch, expect, ev>>
  /\ UNCHANGED sideVars
  /\ UNCHANGED respOut
  /\ UNCHANGED histVars

\* r := <-c.recCh, with a note of whether the chan was idle at that moment.
FwdRecvNoted(k) ==
  /\ fpc[k] = "wait"
  /\ recCh[k] # <<>>
  /\ fcur' = [fcur EXCEPT ![k] = Head(recCh[k])]
  /\ recCh' = [recCh EXCEPT ![k] = Tail(recCh[k])]
  /\ fpc' = [fpc EXCEPT ![k] = "got"]
  /\ fidle' = [fidle EXCEPT ![k] = (cid[k] = 0)]
  /\ UNCHANGED <<hseen, hagain, unitVars>>
  /\ UNCHANGED <<callerVars, poolVars, flagVars, fretries, respVars, ch, expect, ev>>
  /\ UNCHANGED sideVars
  /\ UNCHANGED respOut

\* A forwarder that would drop nothing.
FwdDropsNone(id, respId) == FALSE
\* The forwarder's filter: drop when the chan is idle or the ids differ.
FwdDrops(id, respId) == id = 0 \/ id # respId

\* id := c.getId(); a Resp for an idle chan or with another id is dropped.
FwdCheck(k) ==
  /\ fpc[k] = "got"
  /\ IF FwdDrops(cid[k], fcur[k].id)
       THEN /\ fpc' = [fpc EXCEPT ![k] = "wait"]
            /\ fcur' = [fcur EXCEPT ![k] = NoResp]
       ELSE /\ fpc' = [fpc EXCEPT ![k] = "fwd"]
            /\ UNCHANGED fcur
  /\ fretries' = [fretries EXCEPT ![k] = 0]
  /\ UNCHANGED <<callerVars, poolVars, flagVars, recCh, respVars, ch, expect, ev>>
  /\ UNCHANGED sideVars
  /\ UNCHANGED respOut
  /\ UNCHANGED histVars

\* A forwarder that would allow itself one retry more.
MayRetryOnceMore(n) == n <= CorrelatedChanRetries
\* The retry loop's test after a failed hand-off: retries < maxRetries.
MayRetry(n) == n < CorrelatedChanRetries

\* forwardedOK returns false (case <-timer.C): retry, or give the Resp up.
FwdTimeout(k) ==
  /\ fpc[k] = "fwd"
  /\ IF MayRetry(fretries[k])
       THEN /\ fretries' = [fretries EXCEPT ![k] = fretries[k] + 1]
            /\ UNCHANGED <<fpc, fcur>>
       ELSE /\ fretries' = [fretries EXCEPT ![k] = 0]
            /\ fpc' = [fpc EXCEPT ![k] = "wait"]
            /\ fcur' = [fcur EXCEPT ![k] = NoResp]
  /\ UNCHANGED <<callerVars, poolVars, flagVars, recCh, respVars, ch, expect, ev>>
  /\ UNCHANGED sideVars
  /\ UNCHANGED respOut
  /\ UNCHANGED histVars

\* ------------------------------------------------ correlated chan, on its own
\* c := p.Get(id): the test rents the first chan of the pool for TestId.
TestGet ==
  /\ cid[1] = 0
  /\ nchan = 0
  /\ cid' = [cid EXCEPT ![1] = TestId]
  /\ nchan' = 1
  /\ tleft' = MaxGhosts
  /\ UNCHANGED <<callerVars, rq, counter, nreq, flagVars, fwdVars, respVars, ch, expect, ev,
                 closeVars, clockVars, orderVars, tmatch, tgot>>
  /\ UNCHANGED respOut
  /\ UNCHANGED histVars

\* c.send(&resp{id: id, data: &data}) by the sending goroutine: a ghost while
\* there are ghosts left, or the one Resp with the expected id; the send waits
\* while the inbound buffer is full.
TestSend(id) ==
  /\ cid[1] = TestId
  /\ IF id = TestId THEN ~tmatch ELSE tleft > 0
  /\ Len(recCh[1]) < CorrelatedChanSize
  /\ recCh' = [recCh EXCEPT ![1] = Append(recCh[1], Resp(id, TestData, ErrNil))]
  /\ tmatch' = (tmatch \/ id = TestId)
  /\ tleft' = IF id = TestId THEN tleft ELSE tleft - 1
  /\ UNCHANGED <<callerVars, poolVars, flagVars, fpc, fcur, fretries, respVars, ch, expect,
                 ev, closeVars, clockVars, orderVars, tgot>>
  /\ UNCHANGED respOut
  /\ UNCHANGED histVars

\* r := <-c.getReceiverChan(): the receiver takes the Resp that the forwarder is
\* offering on the outbound side.
TestRecv ==
  /\ cid[1] = TestId
  /\ fpc[1] = "fwd"
  /\ tgot' = Append(tgot, fcur[1])
  /\ fpc' = [fpc EXCEPT ![1] = "wait"]
  /\ fcur' = [fcur EXCEPT ![1] = NoResp]
  /\ fretries' = [fretries EXCEPT ![1] = 0]
  /\ UNCHANGED <<callerVars, poolVars, flagVars, recCh, respVars, ch, expect, ev,
                 closeVars, clockVars, orderVars, tleft, tmatch>>
  /\ UNCHANGED respOut
  /\ UNCHANGED histVars

\* ------------------------------------------------------------- Responder
\* A Responder that would never find its flag set.
isClosedNever == FALSE
\* commsBase.isClosed on the Responder, as ListenAndHandle reads it after a receive.
isClosed == sclosed

\* time.Now().After(r.hasGoneAway) as a call sees it: initialise.Do sets the
\* deadline on the first call, and the deadline may pass while the call waits.
AfterGoneAway(passed) == (initialised /\ expired) \/ passed

\* A ListenAndHandle call that received a req returns: its locals are gone.
EndCall ==
  /\ rreq' = Nil
  /\ rsid' = 0
  /\ rchan' = Nil
  /\ sawClosed' = FALSE

\* A ListenAndHandle call is made: no Send counts as undisturbed by the loop.
Disturb == quiet' = [c \in Callers |-> FALSE]

\* ListenAndHandle, case <-listenTimer.C.
LAHTimer ==
  /\ rpc = "idle"
  /\ \E passed \in BOOLEAN :
       /\ expired' = AfterGoneAway(passed)
       /\ IF AfterGoneAway(passed)
            THEN /\ sclosed' = setClosed(sclosed)
                 /\ ev' = LAHReturned(ErrRequestorGoneAway, sclosed, FALSE, FALSE)
            ELSE /\ ev' = LAHReturned(ErrNil, sclosed, FALSE, FALSE)
                 /\ UNCHANGED sclosed
  /\ initialised' = TRUE
  /\ Disturb
  /\ UNCHANGED <<pc, creq, attempts, stamp, poolVars, done, rclosed, parentDone, fwdVars,
                 rpc, rreq, rsid, rchan, rout, reqCount, sawClosed, ch, expect>>
  /\ UNCHANGED sideVars
  /\ UNCHANGED respOut
  /\ UNCHANGED histVars

\* ListenAndHandle, cases <-r.ctx.Done() and <-ctx.Done().
LAHCtx ==
  /\ rpc = "idle"
  /\ \E ctxDone \in BOOLEAN : parentDone \/ ctxDone
  /\ sclosed' = setClosed(sclosed)
  /\ ev' = LAHReturned(ErrContextCompleted, sclosed, FALSE, FALSE)
  /\ initialised' = TRUE
  /\ expired' = AfterGoneAway(FALSE)
  /\ Disturb
  /\ UNCHANGED <<pc, creq, attempts, stamp, poolVars, done, rclosed, parentDone, fwdVars,
                 rpc, rreq, rsid, rchan, rout, reqCount, sawClosed, ch, expect>>
  /\ UNCHANGED sideVars
  /\ UNCHANGED respOut
  /\ UNCHANGED histVars

\* A channel that would deliver the entry sent last.
ReceivedLast(q) == Len(q)
\* req := <-r.ch: of the entries a channel buffers, a receive delivers the one
\* that was sent first.
Received(q) == 1
\* The buffer without its i-th entry.
Without(q, i) == SubSeq(q, 1, i - 1) \o SubSeq(q, i + 1, Len(q))

\* ListenAndHandle, case <-ctx.Done(), for a call-site token that is cancelled
\* while the parent token is live; the loop that called it ends on the error.
ListenCancelled ==
  /\ rpc = "idle"
  /\ ~parentDone
  /\ sclosed' = setClosed(sclosed)
  /\ ev' = LAHReturned(ErrContextCompleted, sclosed, FALSE, FALSE)
  /\ rpc' = "ended"
  /\ initialised' = TRUE
  /\ expired' = AfterGoneAway(FALSE)
  /\ Disturb
  /\ UNCHANGED <<pc, creq, attempts, stamp, poolVars, done, rclosed, parentDone, fwdVars,
                 rreq, rsid, rchan, rout, reqCount, sawClosed, ch, expect, sideVars>>
  /\ UNCHANGED respOut
  /\ UNCHANGED histVars

\* ListenAndHandle, case req := <-r.ch: closed branch, or the deadline is
\* refreshed and handle starts (ch := req.ch).
LAHRecv ==
  /\ rpc = "idle"
  /\ ch # <<>>
  /\ ch' = Without(ch, Received(ch))
  /\ rreq' = ch[Received(ch)].r
  /\ rsid' = ch[Received(ch)].sid
  /\ popped' = ch[Received(ch)].n
  /\ initialised' = TRUE
  /\ sawClosed' = sclosed
  /\ IF isClosed
       THEN /\ rpc' = "closedReply"
            /\ expired' = AfterGoneAway(FALSE)
            /\ UNCHANGED rchan
       ELSE /\ rpc' = "call"
            /\ expired' = FALSE
            /\ rchan' = rq[ch[Received(ch)].r].c
  /\ Disturb
  /\ UNCHANGED <<pc, creq, attempts, stamp, poolVars, flagVars, fwdVars, rout, reqCount,
                 expect, ev, closeVars, clockVars, pushes>>
  /\ UNCHANGED testVars
  /\ UNCHANGED respOut
  /\ UNCHANGED histVars

\* Closed branch: req.ch <- r.pool.Get(req.id, nil, ErrResponderIsClosed); return nil.
\* The push is not behind a panic barrier: with the handle cleared the call never returns.
ClosedReply ==
  /\ rpc = "closedReply"
  /\ LET k == rq[rreq].c
     IN IF k = Nil
          THEN /\ rpc' = "halted"
               /\ UNCHANGED <<recCh, ev, rreq, rsid, rchan, sawClosed>>
          ELSE /\ Len(recCh[k]) < CorrelatedChanSize
               /\ recCh' = [recCh EXCEPT ![k] =
                              Append(recCh[k], Resp(rq[rreq].id, Nil, ErrResponderIsClosed))]
               /\ rpc' = "idle"
               /\ ev' = LAHReturned(ErrNil, sawClosed, FALSE, FALSE)
               /\ EndCall
  /\ UNCHANGED <<callerVars, poolVars, flagVars, fpc, fcur, fretries,
                 rout, reqCount, initialised, expired, ch, expect>>
  /\ UNCHANGED sideVars
  /\ respOut' = RespGet(respOut)
  /\ UNCHANGED histVars

\* The handlers passed to ListenAndHandle.  calc squares the value of its input
\* and returns (nil, error) for an input whose choice it does not know, which
\* the payload UnknownChoice stands for, and it panics on a nil input, which it
\* dereferences; reflectOrBoom counts its invocations,
\* panics on every PanicEvery-th of them and returns its input on the others.
Handlers == {"calc", "reflectOrBoom"}
Panicking == [data |-> Nil, err |-> ErrNil, panics |-> TRUE]
calc(t) ==
  IF t = Nil THEN Panicking
  ELSE IF t = UnknownChoice THEN [data |-> Nil, err |-> ErrHandler, panics |-> FALSE]
  ELSE [data |-> t * t, err |-> ErrNil, panics |-> FALSE]
HandlerPanics(n) == n % PanicEvery = 0
reflectOrBoom(n, t) ==
  IF HandlerPanics(n) THEN Panicking ELSE [data |-> t, err |-> ErrNil, panics |-> FALSE]

\* handle: u, err := h(ctx, req.data) -- the handler is entered with the payload
\* the req holds now.
HandlerCall(h) ==
  /\ rpc = "call"
  /\ IF h = "calc"
       THEN /\ rout' = calc(rq[rreq].data)
            /\ UNCHANGED reqCount
       ELSE /\ rout' = reflectOrBoom(reqCount + 1, rq[rreq].data)
            /\ reqCount' = (reqCount + 1) % PanicEvery
  /\ rpc' = "running"
  /\ UNCHANGED <<callerVars, poolVars, flagVars, fwdVars, rreq, rsid, rchan, initialised,
                 expired, sawClosed, ch, expect, ev>>
  /\ UNCHANGED sideVars
  /\ UNCHANGED respOut
  /\ UNCHANGED histVars

\* handle: u, err := h(ctx, req.data), with a note of the Send whose payload the
\* req holds at the call: the Send that the req is rented to, which stamped it.
HandlerCallNoted(h) ==
  /\ rpc = "call"
  /\ IF h = "calc"
       THEN /\ rout' = calc(rq[rreq].data)
            /\ UNCHANGED reqCount
       ELSE /\ rout' = reflectOrBoom(reqCount + 1, rq[rreq].data)
            /\ reqCount' = (reqCount + 1) % PanicEvery
  /\ rpc' = "running"
  /\ hseen' = IF rq[rreq].id # 0 THEN hseen \cup {rq[rreq].id} ELSE hseen
  /\ hagain' = IF rq[rreq].id \in hseen THEN hagain \cup {rq[rreq].id} ELSE hagain
  /\ UNCHANGED <<callerVars, poolVars, flagVars, fwdVars, rreq, rsid, rchan, initialised,
                 expired, sawClosed, ch, expect, ev>>
  /\ UNCHANGED sideVars
  /\ UNCHANGED respOut
  /\ UNCHANGED <<fidle, unitVars>>

\* r.pool.Get(...) and responder.sendResp(ch, resp): the Resp is rented and pushed
\* onto the chan's inbound side; a panic of the push (the handle is gone) is
\* recovered and the Resp closed.
SendResp(k, r) ==
  IF k = Nil
    THEN /\ UNCHANGED recCh
         /\ respOut' = RespPut(RespGet(respOut))
    ELSE /\ Len(recCh[k]) < CorrelatedChanSize
         /\ recCh' = [recCh EXCEPT ![k] = Append(recCh[k], r)]
         /\ respOut' = RespGet(respOut)

\* The Send that pushed the entry being handled, if it is still waiting for its reply.
Waiting(sid) == {c \in Callers : pc[c] = "recv" /\ stamp[c] = sid}

\* The id that handle stamps on the Resp: req.id as the req holds it when the
\* handler has come back.
RespId == rq[rreq].id

\* handle: the handler has returned; resp := r.pool.Get(req.id, u, err); sendResp(ch, resp).
HandlerReturn ==
  /\ rpc = "running"
  /\ ~rout.panics
  /\ SendResp(rchan, Resp(RespId, rout.data, rout.err))
  /\ expect' = [c \in Callers |->
                  IF c \in Waiting(rsid)
                    THEN [set |-> TRUE, data |-> rout.data, err |-> rout.err]
                    ELSE expect[c]]
  /\ rpc' = "idle"
  /\ rout' = NoOut
  /\ ev' = LAHReturned(ErrNil, sawClosed, TRUE, FALSE)
  /\ EndCall
  /\ UNCHANGED <<callerVars, poolVars, flagVars, fpc, fcur, fretries, reqCount,
                 initialised, expired, ch>>
  /\ lcall' = now
  /\ UNCHANGED <<closeVars, now, hasGoneAway, ldue, orderVars>>
  /\ UNCHANGED testVars
  /\ UNCHANGED histVars

\* A handle that would return the recovered panic to its caller.
PanicReturnErr == ErrUncaughtHandlerPanic
\* What a ListenAndHandle call returns when handle has recovered a handler panic:
\* the zero value of handle's unnamed result.
PanicReturn == ErrNil

\* handle: the handler has panicked; the deferred recover pushes
\* r.pool.Get(req.id, nil, ErrUncaughtHandlerPanic) to req.ch, read now.
HandlerPanic ==
  /\ rpc = "running"
  /\ rout.panics
  /\ SendResp(rq[rreq].c, Resp(RespId, Nil, ErrUncaughtHandlerPanic))
  /\ expect' = [c \in Callers |->
                  IF c \in Waiting(rsid)
                    THEN [set |-> TRUE, data |-> Nil, err |-> ErrUncaughtHandlerPanic]
                    ELSE expect[c]]
  /\ rpc' = "idle"
  /\ rout' = NoOut
  /\ ev' = LAHReturned(PanicReturn, sawClosed, TRUE, TRUE)
  /\ EndCall
  /\ UNCHANGED <<callerVars, poolVars, flagVars, fpc, fcur, fretries, reqCount,
                 initialised, expired, ch>>
  /\ lcall' = now
  /\ UNCHANGED <<closeVars, now, hasGoneAway, ldue, orderVars>>
  /\ UNCHANGED testVars
  /\ UNCHANGED histVars

\* A deadline that would never be found passed, and one found passed on the instant.
AfterNever(a, b) == FALSE
AfterOrAt(a, b) == a >= b
\* time.Time.After: a is strictly later than b.
After(a, b) == a > b

\* ListenAndHandle is called, by a loop that calls it again as soon as it has
\* returned nil: initialise.Do sets the deadline on the first call, the listen
\* timer is armed and the call waits in its select.
ListenCall ==
  /\ rpc = "idle"
  /\ rpc' = "listen"
  /\ hasGoneAway' = IF initialised THEN hasGoneAway ELSE now + GoneAwayTimeout
  /\ initialised' = TRUE
  /\ ldue' = now + ResponderTimeout
  /\ sawClosed' = sclosed
  /\ Disturb
  /\ UNCHANGED <<pc, creq, attempts, stamp, poolVars, flagVars, fwdVars, rreq, rsid, rchan,
                 rout, reqCount, expired, ch, expect, ev, closeVars, now, lcall, orderVars>>
  /\ UNCHANGED testVars
  /\ UNCHANGED respOut
  /\ UNCHANGED histVars

\* ListenAndHandle, case <-listenTimer.C, when the timer armed at the call elapses;
\* the loop ends on the error.
ListenTimer ==
  /\ rpc = "listen"
  /\ now = ldue
  /\ expired' = After(now, hasGoneAway)
  /\ IF After(now, hasGoneAway)
       THEN /\ sclosed' = setClosed(sclosed)
            /\ ev' = LAHReturned(ErrRequestorGoneAway, sawClosed, FALSE, FALSE)
            /\ rpc' = "ended"
       ELSE /\ ev' = LAHReturned(ErrNil, sawClosed, FALSE, FALSE)
            /\ rpc' = "idle"
            /\ UNCHANGED sclosed
  /\ sawClosed' = FALSE
  /\ UNCHANGED <<callerVars, poolVars, done, rclosed, parentDone, fwdVars, rreq, rsid, rchan,
                 rout, reqCount, initialised, ch, expect, sideVars>>
  /\ UNCHANGED respOut
  /\ UNCHANGED histVars

\* ListenAndHandle, case req := <-r.ch, taken by the waiting call: closed branch,
\* or the deadline is set anew from the clock and handle starts.
ListenRecv ==
  /\ rpc = "listen"
  /\ ch # <<>>
  /\ ch' = Without(ch, Received(ch))
  /\ rreq' = ch[Received(ch)].r
  /\ rsid' = ch[Received(ch)].sid
  /\ popped' = ch[Received(ch)].n
  /\ IF isClosed
       THEN /\ rpc' = "closedReply"
            /\ UNCHANGED <<rchan, hasGoneAway, expired>>
       ELSE /\ rpc' = "call"
            /\ hasGoneAway' = now + GoneAwayTimeout
            /\ expired' = FALSE
            /\ rchan' = rq[ch[Received(ch)].r].c
  /\ UNCHANGED <<callerVars, poolVars, flagVars, fwdVars, rout, reqCount, initialised,
                 sawClosed, expect, ev, closeVars, now, ldue, lcall, pushes>>
  /\ UNCHANGED testVars
  /\ UNCHANGED respOut
  /\ UNCHANGED histVars

\* The clock advances by one tick: while a call waits in its select with its timer
\* still running and nothing to receive, or while handle is running.
Tick ==
  /\ now < MaxTime
  /\ \/ rpc = "listen" /\ now < ldue /\ ch = <<>>
     \/ rpc \in {"call", "running"}
  /\ now' = now + 1
  /\ UNCHANGED <<callerVars, poolVars, flagVars, fwdVars, respVars, ch, expect, ev,
                 closeVars, hasGoneAway, ldue, lcall, orderVars>>
  /\ UNCHANGED testVars
  /\ UNCHANGED respOut
  /\ UNCHANGED histVars

\* A Once that would run its function on every Do.
OnceRunsAlways(o) == TRUE
\* sync.Once.Do runs its function when no Do has run it before.
OnceRuns(o) == ~o

\* r.once.Do(func() { close(r.done) }): a close of a closed channel panics.
OnceDo ==
  IF OnceRuns(once)
    THEN /\ once' = TRUE
         /\ done' = TRUE
         /\ cpanic' = (cpanic \/ done)
    ELSE UNCHANGED <<once, done, cpanic>>

\* Responder.Close by a context that runs alone: the flag is set and once.Do
\* closes the done signal.
Close ==
  /\ sclosed' = setClosed(sclosed)
  /\ OnceDo
  /\ UNCHANGED <<callerVars, poolVars, rclosed, parentDone, fwdVars, respVars, ch,
                 expect, ev, cpc, clockVars, orderVars>>
  /\ UNCHANGED testVars
  /\ UNCHANGED respOut
  /\ UNCHANGED histVars

\* Responder.Close by one of several contexts, first statement: r.setClosed().
CloseFlag(p) ==
  /\ cpc[p] = "idle"
  /\ sclosed' = setClosed(sclosed)
  /\ cpc' = [cpc EXCEPT ![p] = "once"]
  /\ UNCHANGED <<callerVars, poolVars, done, rclosed, parentDone, fwdVars, respVars, ch,
                 expect, ev, once, cpanic, clockVars, orderVars>>
  /\ UNCHANGED testVars
  /\ UNCHANGED respOut
  /\ UNCHANGED histVars

\* Responder.Close by one of several contexts, second statement: r.once.Do(...);
\* Do calls are serialised by the Once's mutex.
CloseOnce(p) ==
  /\ cpc[p] = "once"
  /\ OnceDo
  /\ cpc' = [cpc EXCEPT ![p] = "idle"]
  /\ ev' = CloseReturned(p, once, \E q \in Closers \ {p} : cpc[q] = "once")
  /\ UNCHANGED <<callerVars, poolVars, rclosed, sclosed, parentDone, fwdVars, respVars,
                 ch, expect, clockVars, orderVars>>
  /\ UNCHANGED testVars
  /\ UNCHANGED respOut
  /\ UNCHANGED histVars

\* The owner of the parent context cancels it.
CancelParent ==
  /\ ~parentDone
  /\ parentDone' = TRUE
  /\ UNCHANGED <<callerVars, poolVars, done, rclosed, sclosed, fwdVars, respVars, ch,
                 expect, ev>>
  /\ UNCHANGED sideVars
  /\ UNCHANGED respOut
  /\ UNCHANGED histVars

\* The owner cancels the parent context while a Send is waiting in attemptSend
\* and no ListenAndHandle call is in progress.
CancelWaiting ==
  /\ \E c \in Callers : pc[c] \in {"submit", "recv"}
  /\ rpc = "idle"
  /\ CancelParent

\* ----------------------------------------------------------- specifications
\* The pair with its whole life cycle, under sequential Sends.
Next ==
  \/ \E c \in Sequential : SendCall(c, MaxIdLife, AnyToken)
  \/ \E c \in Callers : SubmitDone(c)
  \/ \E c \in Callers : SubmitPush(c)
  \/ \E c \in Callers : SubmitTimeout(c)
  \/ \E c \in Callers : RecvTimeout(c)
  \/ \E c \in Callers : RecvResp(c)
  \/ \E k \in ChanObjs : FwdRecv(k)
  \/ \E k \in ChanObjs : FwdCheck(k)
  \/ \E k \in ChanObjs : FwdTimeout(k)
  \/ LAHTimer
  \/ LAHCtx
  \/ LAHRecv
  \/ ClosedReply
  \/ \E h \in Handlers : HandlerCall(h)
  \/ HandlerReturn
  \/ HandlerPanic
  \/ Close
  \/ CancelParent

Spec == Init /\ [][Next]_vars

\* Concurrent Sends, timeouts, pool recycling and a Responder that stays open
\* with live tokens and runs calc.
NextOpen ==
  \/ \E c \in Callers : SendCall(c, MaxId, LiveToken)
  \/ \E c \in Callers : SubmitPush(c)
  \/ \E c \in Callers : SubmitTimeout(c)
  \/ \E c \in Callers : RecvTimeout(c)
  \/ \E c \in Callers : RecvResp(c)
  \/ \E k \in ChanObjs : FwdRecv(k)
  \/ \E k \in ChanObjs : FwdCheck(k)
  \/ \E k \in ChanObjs : FwdTimeout(k)
  \/ LAHRecv
  \/ HandlerCall("calc")
  \/ HandlerReturn
  \/ HandlerPanic

SpecOpen == Init /\ [][NextOpen]_vars

\* SpecOpen with one more rental, so that a req can be rented again while two
\* entries pushed before are waiting.
NextOrder ==
  \/ \E c \in Callers : SendCall(c, MaxIdOrder, LiveToken)
  \/ \E c \in Callers : SubmitPush(c)
  \/ \E c \in Callers : SubmitTimeout(c)
  \/ \E c \in Callers : RecvTimeout(c)
  \/ \E c \in Callers : RecvResp(c)
  \/ \E k \in ChanObjs : FwdRecv(k)
  \/ \E k \in ChanObjs : FwdCheck(k)
  \/ \E k \in ChanObjs : FwdTimeout(k)
  \/ LAHRecv
  \/ HandlerCall("calc")
  \/ HandlerReturn
  \/ HandlerPanic

SpecOrder == Init /\ [][NextOrder]_vars

\* The id generator through the whole range of its counter: concurrent callers
\* rent reqs, which draws ids under the generator's mutex, and give up.
NoLimit == UintMax + 1
NextIds ==
  \/ \E c \in Callers : SendCall(c, NoLimit, LiveToken)
  \/ \E c \in Callers : SubmitTimeout(c)

SpecIds == Init /\ [][NextIds]_vars

\* A dispatch loop whose call-site token is cancelled at some point, with the
\* parent token live and no Close, under sequential Sends with live tokens; a
\* forwarder keeps a Resp it has accepted until a receiver takes it.
NextChild ==
  \/ \E c \in Sequential : SendCall(c, MaxIdChild, LiveToken)
  \/ \E c \in Callers : SubmitPush(c)
  \/ \E c \in Callers : SubmitTimeout(c)
  \/ \E c \in Callers : RecvTimeout(c)
  \/ \E c \in Callers : RecvResp(c)
  \/ \E k \in ChanObjs : FwdRecv(k)
  \/ \E k \in ChanObjs : FwdCheck(k)
  \/ LAHRecv
  \/ ListenCancelled
  \/ HandlerCall("calc")
  \/ HandlerReturn
  \/ HandlerPanic

SpecChild == Init /\ [][NextChild]_vars

\* A correlated chan on its own, rented for TestId: a sender pushes ghosts and
\* the matching Resp in any order, the forwarder filters and offers, a receiver
\* reads when it likes.  The sender goes on while it can, and the forwarder's
\* steps and timers are taken in the end.
NextChan ==
  \/ TestGet
  \/ \E id \in GhostIds \cup {TestId} : TestSend(id)
  \/ TestRecv
  \/ FwdRecv(1)
  \/ FwdCheck(1)
  \/ FwdTimeout(1)

SpecChan ==
  /\ Init
  /\ [][NextChan]_vars
  /\ WF_vars(TestGet)
  /\ WF_vars(\E id \in GhostIds \cup {TestId} : TestSend(id))
  /\ WF_vars(FwdRecv(1)) /\ WF_vars(FwdCheck(1)) /\ WF_vars(FwdTimeout(1))

\* Sequential Sends to an open Responder that runs reflectOrBoom, with no timer
\* of a Send or of a forwarder elapsing.
NextCalm ==
  \/ \E c \in Sequential : SendCall(c, MaxIdCalm, LiveToken)
  \/ \E c \in Callers : SubmitPush(c)
  \/ \E c \in Callers : RecvResp(c)
  \/ \E k \in ChanObjs : FwdRecv(k)
  \/ \E k \in ChanObjs : FwdCheck(k)
  \/ LAHRecv
  \/ HandlerCall("reflectOrBoom")
  \/ HandlerReturn
  \/ HandlerPanic

SpecCalm == Init /\ [][NextCalm]_vars

\* The whole life cycle, where the timer of a select that a Send waits in
\* elapses in the end; nothing is assumed of the Responder, its handler, the
\* forwarders or the owner of the pair.  The Sends are those of the sequential
\* caller, as in Next.
SpecLive ==
  /\ Init
  /\ [][Next]_vars
  /\ \A c \in Sequential : WF_vars(SubmitTimeout(c)) /\ WF_vars(RecvTimeout(c))

\* The dispatch loop against a clock: ListenAndHandle is called again as soon as
\* it has returned nil, with live tokens and no Close, timers elapse when they
\* are due, the handler takes any time, and a caller Sends at any time.
NextClock ==
  \/ \E c \in Sequential : SendCall(c, MaxIdLife, LiveToken)
  \/ \E c \in Callers : SubmitPush(c)
  \/ \E c \in Callers : SubmitTimeout(c)
  \/ \E c \in Callers : RecvTimeout(c)
  \/ \E c \in Callers : RecvResp(c)
  \/ \E k \in ChanObjs : FwdRecv(k)
  \/ \E k \in ChanObjs : FwdCheck(k)
  \/ \E k \in ChanObjs : FwdTimeout(k)
  \/ ListenCall
  \/ ListenTimer
  \/ ListenRecv
  \/ HandlerCall("calc")
  \/ HandlerReturn
  \/ HandlerPanic
  \/ Tick

SpecClock == Init /\ [][NextClock]_vars

\* Close called from several contexts at once, while a caller Sends to a
\* Responder that runs calc.
NextClose ==
  \/ \E c \in Sequential : SendCall(c, MaxIdLife, LiveToken)
  \/ \E c \in Callers : SubmitDone(c)
  \/ \E c \in Callers : SubmitPush(c)
  \/ \E c \in Callers : SubmitTimeout(c)
  \/ \E c \in Callers : RecvTimeout(c)
  \/ \E c \in Callers : RecvResp(c)
  \/ \E k \in ChanObjs : FwdRecv(k)
  \/ \E k \in ChanObjs : FwdCheck(k)
  \/ \E k \in ChanObjs : FwdTimeout(k)
  \/ LAHRecv
  \/ ClosedReply
  \/ HandlerCall("calc")
  \/ HandlerReturn
  \/ HandlerPanic
  \/ \E p \in Closers : CloseFlag(p)
  \/ \E p \in Closers : CloseOnce(p)

SpecClose == Init /\ [][NextClose]_vars

\* The pair with live call-site tokens, whose parent token is cancelled, if at
\* all, while a Send is waiting and the Responder is between two calls.
NextCancel ==
  \/ \E c \in Sequential : SendCall(c, MaxIdLife, LiveToken)
  \/ \E c \in Callers : SubmitDone(c)
  \/ \E c \in Callers : SubmitPush(c)
  \/ \E c \in Callers : SubmitTimeout(c)
  \/ \E c \in Callers : RecvTimeout(c)
  \/ \E c \in Callers : RecvResp(c)
  \/ \E k \in ChanObjs : FwdRecv(k)
  \/ \E k \in ChanObjs : FwdCheck(k)
  \/ \E k \in ChanObjs : FwdTimeout(k)
  \/ LAHTimer
  \/ LAHCtx
  \/ LAHRecv
  \/ ClosedReply
  \/ HandlerCall("calc")
  \/ HandlerReturn
  \/ HandlerPanic
  \/ Close
  \/ CancelWaiting

SpecCancel == Init /\ [][NextCancel]_vars

\* The dispatch loop against the clock, as under SpecClock, with a Responder
\* that may be closed at any time while the loop goes on; a forwarder keeps a
\* Resp it has accepted until a receiver takes it, and a Send that cannot push
\* waits for its submit timers.
NextGone ==
  \/ \E c \in Sequential : SendCall(c, MaxIdLife, LiveToken)
  \/ \E c \in Callers : SubmitPush(c)
  \/ \E c \in Callers : SubmitTimeout(c)
  \/ \E c \in Callers : RecvTimeout(c)
  \/ \E c \in Callers : RecvResp(c)
  \/ \E k \in ChanObjs : FwdRecv(k)
  \/ \E k \in ChanObjs : FwdCheck(k)
  \/ ListenCall
  \/ ListenTimer
  \/ ListenRecv
  \/ ClosedReply
  \/ HandlerCall("calc")
  \/ HandlerReturn
  \/ HandlerPanic
  \/ Close
  \/ Tick

SpecGone == Init /\ [][NextGone]_vars

\* Sequential Sends whose rental of a req is not one step: the req is stamped
\* with its id and payload before its correlated chan is rented.  The Responder
\* stays open and runs calc, and what a forwarder finds on dequeueing is noted.
NextRent ==
  \/ \E c \in Sequential : RentStamp(c, MaxId)
  \/ \E c \in Callers : RentChan(c)
  \/ \E c \in Callers : SubmitPush(c)
  \/ \E c \in Callers : RecvTimeout(c)
  \/ \E c \in Callers : RecvResp(c)
  \/ \E k \in ChanObjs : FwdRecvNoted(k)
  \/ \E k \in ChanObjs : FwdCheck(k)
  \/ \E k \in ChanObjs : FwdTimeout(k)
  \/ LAHRecv
  \/ HandlerCall("calc")
  \/ HandlerReturn
  \/ HandlerPanic

SpecRent == Init /\ [][NextRent]_vars

\* Sequential Sends that leave attemptSend by each of its exits: the Responder
\* runs calc and may be closed at any time, every timer may elapse, and a panic
\* may unwind a Send that is waiting.
NextExits ==
  \/ \E c \in Sequential : SendCall(c, MaxId, LiveToken)
  \/ \E c \in Callers : SubmitDone(c)
  \/ \E c \in Callers : SubmitPush(c)
  \/ \E c \in Callers : SubmitTimeout(c)
  \/ \E c \in Callers : RecvTimeout(c)
  \/ \E c \in Callers : RecvResp(c)
  \/ \E c \in Callers : SendPanic(c)
  \/ \E k \in ChanObjs : FwdRecv(k)
  \/ \E k \in ChanObjs : FwdCheck(k)
  \/ \E k \in ChanObjs : FwdTimeout(k)
  \/ LAHRecv
  \/ ClosedReply
  \/ HandlerCall("calc")
  \/ HandlerReturn
  \/ HandlerPanic
  \/ Close

SpecExits == Init /\ [][NextExits]_vars

\* SpecOpen with a note of the Sends whose payload the handler is invoked on.
NextOnce ==
  \/ \E c \in Callers : SendCall(c, MaxId, LiveToken)
  \/ \E c \in Callers : SubmitPush(c)
  \/ \E c \in Callers : SubmitTimeout(c)
  \/ \E c \in Callers : RecvTimeout(c)
  \/ \E c \in Callers : RecvResp(c)
  \/ \E k \in ChanObjs : FwdRecv(k)
  \/ \E k \in ChanObjs : FwdCheck(k)
  \/ \E k \in ChanObjs : FwdTimeout(k)
  \/ LAHRecv
  \/ HandlerCallNoted("calc")
  \/ HandlerReturn
  \/ HandlerPanic

SpecOnce == Init /\ [][NextOnce]_vars

\* The Resp pool on its own: Resps are rented for any id, data and error, and a
\* holder of a pointer to a Resp closes it, once or again.
NextResp ==
  \/ \E id \in RespIds, u \in RespData, err \in RespErrs : RespPoolGet(id, u, err)
  \/ \E x \in RespObjs : RespClose(x)

SpecResp == Init /\ [][NextResp]_vars

\* The timer pool on its own: holders acquire timers, wait on them or not, and
\* release them, while time passes and the runtime runs the timers that are due.
NextTimer ==
  \/ \E d \in TimerDurations : acquireTimer(d)
  \/ \E x \in TimerObjs : TimerRun(x)
  \/ \E x \in TimerObjs : TimerRecv(x)
  \/ \E x \in TimerObjs : releaseTimer(x)
  \/ TimerTick

SpecTimer == Init /\ [][NextTimer]_vars

\* The req pool under concurrent callers that rent and return reqs, Get and Put
\* taken step by step (TestNewReqPool).
NextReqPool ==
  \/ \E c \in Callers : RentStamp(c, NoLimit)
  \/ \E c \in Callers : RentChan(c)
  \/ \E c \in Callers : ReqPoolPutChan(c)
  \/ \E c \in Callers : ReqPoolPutReq(c)

SpecReqPool == Init /\ [][NextReqPool]_vars

\* ------------------------------------------------------------------ claims
\* C1 -- Id correlation.  A Send that returns through its receive path consumed a
\* Resp whose id is the id stamped on its req when it was rented; a Resp with
\* another id that reaches a Send is closed, and that Send is still waiting.
C1_IdCorrelation ==
  /\ ev.kind = "received" => ev.rid = ev.sid
  /\ ev.kind = "discarded" => ev.rid # ev.sid /\ pc[ev.c] = "recv"

\* A Resp with a foreign id has reached a waiting Send, which discarded it.
C1_ForeignRespDiscarded ==
  ev.kind = "discarded" /\ ev.rid # 0 /\ ev.rid # ev.sid /\ pc[ev.c] = "recv"

\* What a Send can get for the payload t from a Responder running calc: what calc
\* returns for t, or its recovered panic.
OutcomesOf(t) ==
  { <<calc(t).data, calc(t).err>>, <<Nil, ErrUncaughtHandlerPanic>> }

\* C2 -- Own-response delivery.  The (data, err) a Send returns through its receive
\* path was computed by the handler from the payload that this Send submitted.
C2_OwnResponse ==
  ev.kind = "received" => <<ev.data, ev.err>> \in OutcomesOf(Payload(ev.c))

\* A Send has returned data that no handler makes of the payload it submitted.
C2_ForeignPayload ==
  /\ ev.kind = "received"
  /\ ev.rid = ev.sid
  /\ ev.data # Nil
  /\ <<ev.data, ev.err>> \notin OutcomesOf(Payload(ev.c))

\* C3 -- Correlated-channel filtering.  Every Resp that a receiver takes from the
\* outbound side of a correlated chan during the rental Get(k) has id k.
C3_OutboundFiltered ==
  ev.kind \in {"received", "discarded"} => ev.rid = ev.sid

\* A receiver has taken a Resp of an earlier rental from the outbound side.
C3_StaleRespForwarded ==
  ev.kind = "discarded" /\ ev.rid # 0 /\ ev.rid < ev.sid

\* C4 -- Result pass-through.  When the handler has returned (data, err) for the
\* request of a Send and that Send returns through its receive path, it returns
\* exactly that pair; the ListenAndHandle call that ran the handler returns nil.
C4_PassThrough ==
  /\ (ev.kind = "received" /\ ev.exp.set /\ ev.exp.err # ErrUncaughtHandlerPanic)
       => <<ev.data, ev.err>> = <<ev.exp.data, ev.exp.err>>
  /\ (ev.kind = "lah" /\ ev.handled /\ ~ev.panicked) => ev.err = ErrNil

\* The handler has returned for the request of a Send what it makes of that Send's
\* payload, and the Send has returned what it makes of another payload.
C4_OtherResult ==
  /\ ev.kind = "received"
  /\ ev.exp.set
  /\ <<ev.exp.data, ev.exp.err>> = <<calc(Payload(ev.c)).data, calc(Payload(ev.c)).err>>
  /\ \E d \in Callers \ {ev.c} :
       <<ev.data, ev.err>> = <<calc(Payload(d)).data, calc(Payload(d)).err>>
  /\ <<ev.data, ev.err>> # <<ev.exp.data, ev.exp.err>>

\* C5 -- Panic containment.  With reflectOrBoom, sequential Sends and no timeouts,
\* the n-th Send returns (nil, UncaughtHandlerPanic) when n is a multiple of
\* PanicEvery and its own payload with no error otherwise, which is what the
\* handler did for its request; a ListenAndHandle call whose handler panicked
\* returns nil.
C5_PanicContainment ==
  /\ ev.kind = "received" =>
       /\ ev.exp.set
       /\ <<ev.data, ev.err>> = <<ev.exp.data, ev.exp.err>>
       /\ IF (ev.sid - 1) % PanicEvery = 0
            THEN <<ev.data, ev.err>> = <<Nil, ErrUncaughtHandlerPanic>>
            ELSE <<ev.data, ev.err>> = <<Payload(ev.c), ErrNil>>
  /\ (ev.kind = "lah" /\ ev.panicked) => ev.err = ErrNil
  /\ ev.kind # "failed"

\* A Send has returned the recovered panic of its handler invocation, and the
\* Responder is back waiting for requests.
C5_PanicReturned ==
  /\ ev.kind = "received"
  /\ ev.err = ErrUncaughtHandlerPanic
  /\ ev.data = Nil
  /\ ev.sid = PanicEvery + 1
  /\ rpc = "idle"

\* A Send returned that was called with live tokens after Close, with no
\* ListenAndHandle call in progress then or made since.
SentAfterClose == ev.kind \in {"failed", "received"} /\ ev.quiet /\ ~ev.cancelled

\* C6 as stated -- after Close, with no ListenAndHandle call made afterwards, every
\* Send with live tokens returns a nil payload and CommsChannelClosed or SendTimeout.
C6_ClosedOrTimeoutOnly ==
  SentAfterClose => ev.data = Nil /\ ev.err \in {ErrCommsChannelIsClosed, ErrSendTimeout}

\* C6 -- after Close, with no ListenAndHandle call made afterwards, every Send with
\* live tokens returns a nil payload and one of CommsChannelClosed, SendTimeout,
\* UnableToSendRequest and, once an earlier Send has seen the done signal,
\* RequestorClosed.
C6_SendAfterClose ==
  SentAfterClose =>
    /\ ev.data = Nil
    /\ ev.err \in {ErrCommsChannelIsClosed, ErrSendTimeout, ErrUnableToSendRequest,
                   ErrRequestorIsClosed}
    /\ ev.err = ErrRequestorIsClosed => rclosed

\* A Send after Close has failed with RequestorClosed.
C6_RequestorClosedAfterClose ==
  SentAfterClose /\ ev.err = ErrRequestorIsClosed /\ done /\ rclosed

\* C7 -- Send cancellation pre-check.  A Send called with the parent token or its
\* own token cancelled returns (nil, ContextCompleted), sets the Requestor's
\* closed flag, rents no req and pushes nothing, also when the flag was already set.
C7_CancelPreCheck ==
  [][\A c \in Sequential :
       (SendCall(c, MaxIdLife, AnyToken) /\ (parentDone \/ (ev'.cancelled /\ ev' # ev)))
         => /\ ev'.kind = "failed" /\ ev'.c = c /\ ev'.cancelled
            /\ ev'.data = Nil /\ ev'.err = ErrContextCompleted
            /\ rclosed'
            /\ UNCHANGED <<callerVars, poolVars, ch>>]_vars

\* A Send with a cancelled token has returned ContextCompleted; the flag is set and
\* nothing is rented or queued.
C7_CancelledSend ==
  /\ ev.kind = "failed" /\ ev.cancelled /\ ev.err = ErrContextCompleted
  /\ rclosed
  /\ \A c \in Callers : creq[c] = Nil
  /\ ch = <<>>

\* C8 -- Requestor closed is absorbing.  Once the Requestor's closed flag is set,
\* every Send called later fails with RequestorClosed or ContextCompleted, returns
\* a nil payload and leaves the work channel and the pools as they were.
C8_RequestorClosedAbsorbing ==
  [][\A c \in Sequential :
       (rclosed /\ SendCall(c, MaxIdLife, AnyToken))
         => /\ ev'.kind = "failed" /\ ev'.c = c /\ ev'.data = Nil
            /\ ev'.err \in {ErrRequestorIsClosed, ErrContextCompleted}
            /\ rclosed'
            /\ UNCHANGED <<callerVars, poolVars, ch>>]_vars

\* A Send called with the flag set and live tokens has failed with RequestorClosed.
C8_SendRefused ==
  ev.kind = "failed" /\ ev.err = ErrRequestorIsClosed /\ ~ev.cancelled /\ rclosed

C10_ClosedMonotone ==
  [][(rclosed => rclosed') /\ (sclosed => sclosed')]_vars

\* Both flags are set, and a Send and a ListenAndHandle call have run since.
C10_BothClosed ==
  rclosed /\ sclosed /\ initialised /\ ev.kind \in {"failed", "lah"} /\ ~ev.cancelled

\* C11 -- Close idempotence.  Every Close call that returns leaves the Responder's
\* closed flag set and the done signal closed; once a Close has done so, no step of
\* a further Close call, made after it or concurrently from another context,
\* changes anything but that call's own position, and no Close closes the done
\* signal a second time (which would panic).
C11_CloseIdempotent ==
  [][/\ ~cpanic'
     /\ \A p \in Closers :
          /\ CloseOnce(p) => (sclosed' /\ done' /\ once')
          /\ ((CloseFlag(p) \/ CloseOnce(p)) /\ sclosed /\ done)
               => UNCHANGED <<callerVars, poolVars, flagVars, fwdVars, respVars, ch,
                              expect, once, cpanic>>]_vars

\* A repeated Close call has returned while a Close call of another context was
\* in progress; the signal is closed and nothing has panicked.
C11_RepeatedClose ==
  /\ ev.kind = "close" /\ ev.again /\ ev.overlap
  /\ sclosed /\ done /\ once /\ ~cpanic

\* C12 -- Send never deadlocks.  Provided that timers elapse, every Send that has
\* entered attemptSend returns, whatever the Responder does; its submit loop sees
\* fewer than maxAttempts timers elapse without giving up, and the first
\* response timer that elapses ends the call.
C12_SendReturns ==
  /\ [](\A c \in Callers : attempts[c] < maxAttempts)
  /\ [][\A c \in Callers : RecvTimeout(c) => pc'[c] = "idle"]_vars
  /\ \A c \in Sequential : (pc[c] # "idle") ~> (pc[c] = "idle")

\* A Send has pushed its request and returned SendTimeout though no
\* ListenAndHandle call was ever made; its request is still queued.
C12_ReturnedUnserved ==
  /\ ev.kind = "failed" /\ ev.err = ErrSendTimeout /\ ~ev.cancelled
  /\ ~initialised /\ rpc = "idle" /\ Len(ch) = 1
  /\ \A c \in Callers : pc[c] = "idle"

\* The later of two instants.
Later(a, b) == IF a > b THEN a ELSE b

\* C13 as stated -- with t the first call or the last successful receive, so that
\* the deadline is t + gone_away_timeout: while the loop goes on undeclared, and
\* when it has ended on RequestorGoneAway, the clock is no later than
\* t + gone_away_timeout + responder_timeout.
C13_WithinBound ==
  (initialised /\ rpc \in {"idle", "listen", "ended"})
    => now <= hasGoneAway + ResponderTimeout

\* C13 -- Gone-away bound.  A call whose listen timer elapses after the deadline
\* returns RequestorGoneAway with the closed flag set, and that happens no later
\* than responder_timeout after the later of the deadline t + gone_away_timeout
\* and the instant handle returned for the request received at t.
C13_GoneAwayBound ==
  /\ (initialised /\ rpc \in {"idle", "listen", "ended"})
       => now <= Later(hasGoneAway, lcall) + ResponderTimeout
  /\ rpc = "ended" => sclosed
  /\ (initialised /\ rpc \in {"idle", "listen"}) => ~sclosed

\* The loop has ended on RequestorGoneAway later than responder_timeout +
\* gone_away_timeout after the last receive, the handler having run past the deadline.
C13_LateGoneAway ==
  /\ rpc = "ended" /\ sclosed
  /\ ev.kind = "lah" /\ ev.err = ErrRequestorGoneAway
  /\ now > hasGoneAway + ResponderTimeout
  /\ now = lcall + ResponderTimeout

\* C14, for the envelopes -- the Responder receives the entries of the work channel
\* in the order of their pushes, none skipped, and enters handle for each before
\* it receives the next; hence the entries of one caller that are still queued
\* were issued (have greater ids) after the entry received.
C14_Fifo ==
  [][LAHRecv =>
       /\ popped' = popped + 1
       /\ rpc = "idle" /\ rpc' = "call"
       /\ \A i \in DOMAIN ch : \A j \in DOMAIN ch' :
            (ch[i].n = popped' /\ ch'[j].c = ch[i].c) => ch'[j].sid > ch[i].sid]_vars

\* Two callers had pushed, and the Responder has received the entry pushed first
\* while the one pushed second is still queued.
C14_FirstOfTwo ==
  /\ pc[1] = "recv" /\ pc[2] = "recv"
  /\ pushes = 2 /\ popped = 1 /\ rpc = "call"
  /\ Len(ch) = 1 /\ ch[1].n = 2

\* C14 -- FIFO processing.  When the handler is invoked, the request whose payload
\* it is given (the rental the req holds then) is not one whose entry is still
\* queued behind the entry of a request pushed earlier.
C14_HandledInPushOrder ==
  [][HandlerCall("calc") =>
       ~\E i, j \in DOMAIN ch :
          i < j /\ rq[rreq].id # 0 /\ ch[j].sid = rq[rreq].id]_vars

\* The handler is running on the payload of a request whose entry is still queued
\* behind the entry of another caller's request, pushed earlier.
C14_HandledAheadOfTurn ==
  /\ rpc = "running"
  /\ \E i, j \in DOMAIN ch :
       /\ i < j /\ ch[i].n < ch[j].n /\ ch[i].c # ch[j].c
       /\ ch[j].r = rreq /\ ch[j].sid = rq[rreq].id
       /\ pc[ch[j].c] = "recv" /\ stamp[ch[j].c] = ch[j].sid
       /\ rout = calc(Payload(ch[j].c))

\* C15 -- Issued ids are never zero.  The generator's counter is never zero, and
\* every rented req and its correlated chan carry a non-zero id, also after the
\* counter has reached the maximum.
C15_IdsNonZero ==
  /\ counter # 0
  /\ \A c \in Callers :
       creq[c] # Nil => /\ stamp[c] # 0
                        /\ rq[creq[c]].id = stamp[c]
                        /\ cid[rq[creq[c]].c] = stamp[c]

\* An id has been issued by the call that followed the one which returned the maximum.
C15_IssuedAfterMax ==
  \E c, d \in Callers :
    creq[c] # Nil /\ creq[d] # Nil /\ stamp[d] = UintMax /\ stamp[c] = 1 /\ counter = 1

\* C16 as stated -- every call of the generator returns an id strictly greater than
\* the one the call before it returned (the counter holds that id).
C16_StrictlyMonotonic ==
  [][\A c \in Callers : (pc[c] = "idle" /\ pc'[c] = "submit") => stamp'[c] > counter]_vars

\* C16 -- every call of the generator returns the id of the call before it plus
\* one, hence a strictly greater one, except the call that follows the one which
\* returned the maximum: it returns 1.
C16_MonotonicUntilWrap ==
  [][\A c \in Callers :
       (pc[c] = "idle" /\ pc'[c] = "submit")
         => /\ counter' = stamp'[c]
            /\ IF counter = UintMax THEN stamp'[c] = 1
                 ELSE stamp'[c] = counter + 1 /\ stamp'[c] > counter]_vars

\* Two concurrent Sends hold ids of consecutive calls, the later one the smaller id.
C16_LaterIdSmaller ==
  \E c, d \in Callers :
    /\ pc[c] = "submit" /\ pc[d] = "submit"
    /\ stamp[d] = UintMax /\ stamp[c] < stamp[d] /\ counter = stamp[c]

\* A step in which the Responder pushes a Resp onto a correlated chan.
RespProduced == \E k \in ChanObjs : Len(recCh'[k]) > Len(recCh[k])

C18_EnvelopeExclusive ==
  /\ \A c, d \in Callers : (c # d /\ creq[c] # Nil) => creq[c] # creq[d]
  /\ \A i \in DOMAIN ch :
       /\ ch[i].r \in RentedReqs
       /\ rq[ch[i].r].id = ch[i].sid
       /\ \A j \in DOMAIN ch : ch[j].r = ch[i].r => j = i
  /\ rreq # Nil => (rreq \in RentedReqs /\ rq[rreq].id = rsid)

\* A req is rented to a Send, still waiting to push it, while the entry that an
\* earlier Send pushed for it is queued on the work channel.
C18_RentedWhileQueued ==
  \E c \in Callers : \E i \in DOMAIN ch :
    /\ pc[c] = "submit"
    /\ ch[i].r = creq[c]
    /\ ch[i].sid # 0 /\ ch[i].sid < stamp[c]
    /\ rq[creq[c]].id = stamp[c]

\* A Send returned that was called after the dispatch loop had ended.
SentAfterLoopEnd == ev.kind \in {"failed", "received"} /\ ev.quiet

\* C19 as stated -- when the loop has ended on ContextCompleted for a cancelled
\* call-site token, the Responder's closed flag is set and the done signal is
\* open, and every Send called afterwards returns a nil payload and SendTimeout.
C19_SendTimeoutOnly ==
  /\ rpc = "ended" => (sclosed /\ ~done)
  /\ SentAfterLoopEnd => (ev.data = Nil /\ ev.err = ErrSendTimeout)

\* C19 -- when the loop has ended on ContextCompleted for a cancelled call-site
\* token, the Responder's closed flag is set and the done signal is open, and
\* every Send called afterwards returns a nil payload and SendTimeout, or
\* UnableToSendRequest when it could not push; it never sets the Requestor's flag.
C19_SendAfterLoopEnd ==
  /\ rpc = "ended" => (sclosed /\ ~done)
  /\ SentAfterLoopEnd =>
       /\ ev.data = Nil
       /\ ev.err \in {ErrSendTimeout, ErrUnableToSendRequest}
       /\ ~rclosed

\* A Send called after the loop had ended found the work channel full of the
\* requests of earlier Sends and has returned UnableToSendRequest.
C19_ChannelFull ==
  /\ rpc = "ended" /\ sclosed /\ ~done
  /\ SentAfterLoopEnd /\ ev.err = ErrUnableToSendRequest
  /\ Len(ch) = ChanSize

\* The Resp with the expected id as the test's sender sends it.
Match == Resp(TestId, TestData, ErrNil)

\* C20 -- Matching reply survives ghosts.  On a chan rented for TestId, whatever
\* the order in which the ghosts and the matching Resp are sent: the forwarder
\* offers nothing but the matching Resp, unchanged, so a receiver obtains that
\* Resp, at most once, and no other; the sender gets all its Resps sent; and the
\* matching Resp does come to be offered on the outbound side.
C20_MatchSurvives ==
  /\ []((fpc[1] = "fwd" => fcur[1] = Match) /\ tgot \in {<<>>, <<Match>>})
  /\ <>(tmatch /\ tleft = 0)
  /\ <>(fpc[1] = "fwd" /\ fcur[1] = Match)

\* The sender has sent more ghosts than the inbound buffer holds and the matching
\* Resp, and the receiver has obtained the matching Resp.
C20_MatchObtained ==
  /\ tmatch /\ tleft = 0 /\ MaxGhosts > CorrelatedChanSize
  /\ tgot = <<Match>>
  /\ recCh[1] = <<>> /\ fpc[1] = "wait"

\* C21 -- No Responder crash.  Whatever Sends, timeouts, Close and cancellation
\* do, no ListenAndHandle call ends in a panic that nothing recovers or stays for
\* ever in the push of its reply; in particular not the call that answers a
\* request with ResponderClosed.
C21_NoResponderCrash ==
  rpc # "halted"

\* A call that received, with the closed flag set, the request of a Send that had
\* timed out and put its req back is stuck in the push of the ResponderClosed
\* reply: the req it holds has no reply channel any more.
C21_ClosedReplyStuck ==
  /\ rpc = "halted" /\ sawClosed /\ sclosed
  /\ rreq # Nil /\ rq[rreq] = EmptyReq /\ rsid # 0
  /\ ev.kind = "failed" /\ ev.err = ErrSendTimeout
  /\ \A c \in Callers : pc[c] = "idle"

\* The Resps that are on their way: in the inbound buffer of a correlated chan or
\* in the hands of its forwarder.
Held(k) == Len(recCh[k]) + (IF fpc[k] = "wait" THEN 0 ELSE 1)
RECURSIVE HeldIn(_)
HeldIn(S) == IF S = {} THEN 0 ELSE LET k == CHOOSE x \in S : TRUE IN Held(k) + HeldIn(S \ {k})

C23_SubmitLoop ==
  [][\A c \in Callers :
       /\ SubmitPush(c) =>
            /\ pc[c] = "submit" /\ pc'[c] = "recv"
            /\ ch' = Append(ch, ch'[Len(ch')]) /\ ch'[Len(ch')].sid = stamp[c]
            /\ \A i \in DOMAIN ch : ch[i].sid # stamp[c]
       /\ pc[c] = "recv" => pc'[c] \in {"recv", "idle"}
       /\ SubmitTimeout(c) =>
            /\ rclosed' = rclosed
            /\ IF attempts[c] = maxAttempts - 1
                 THEN /\ pc'[c] = "idle"
                      /\ ev'.kind = "failed" /\ ev'.c = c /\ ev'.data = Nil
                      /\ ev'.err = ErrUnableToSendRequest
                 ELSE /\ pc'[c] = "submit" /\ attempts'[c] = attempts[c] + 1
                      /\ attempts'[c] < maxAttempts /\ ev' = ev
       /\ SubmitDone(c) =>
            /\ done /\ rclosed' /\ pc'[c] = "idle"
            /\ ev'.kind = "failed" /\ ev'.c = c /\ ev'.data = Nil
            /\ ev'.err = ErrCommsChannelIsClosed
       /\ (pc[c] # "idle" /\ pc'[c] = "idle" /\ ev'.err = ErrUnableToSendRequest)
            => (pc[c] = "submit" /\ attempts[c] = maxAttempts - 1 /\ SubmitTimeout(c))]_vars

\* A Send has given up on its third submit timer without having pushed; the
\* Requestor's closed flag is not set and a further Send may be made.
C23_GaveUpUnflagged ==
  /\ ev.kind = "failed" /\ ev.err = ErrUnableToSendRequest /\ ~ev.cancelled
  /\ ~rclosed /\ pushes = 0
  /\ \A c \in Callers : pc[c] = "idle" /\ attempts[c] = 0

\* A Send of caller c that is waiting in attemptSend returns in this step.
Returns(c) == pc[c] \in {"submit", "recv"} /\ pc'[c] = "idle"

\* C24 as stated -- a Send that is waiting in its submit wait or its response wait
\* when the parent token is cancelled returns ContextCompleted.
C24_CancelObserved ==
  [][\A c \in Callers : (parentDone /\ Returns(c)) => ev'.err = ErrContextCompleted]_vars

\* C24 -- a Send that has passed its pre-check does not look at the tokens again:
\* cancelled or not, it returns its reply, SendTimeout, UnableToSendRequest or,
\* on the done signal, CommsChannelClosed, never ContextCompleted, and it sets
\* the closed flag on the done signal only; the cancellation is observed by the
\* pre-check of the next Send, which returns ContextCompleted.
C24_CancelUnobserved ==
  [][\A c \in Callers :
       /\ Returns(c) =>
            /\ ev'.c = c /\ ~ev'.cancelled
            /\ \/ ev'.kind = "failed" /\ pc[c] = "submit" /\ rclosed' = rclosed
                    /\ ev'.err = ErrUnableToSendRequest
               \/ ev'.kind = "failed" /\ pc[c] = "submit" /\ rclosed' /\ done
                    /\ ev'.err = ErrCommsChannelIsClosed
               \/ ev'.kind = "failed" /\ pc[c] = "recv" /\ rclosed' = rclosed
                    /\ ev'.err = ErrSendTimeout
               \/ ev'.kind = "received" /\ pc[c] = "recv" /\ rclosed' = rclosed
                    /\ ev'.err \in {ErrNil, ErrHandler, ErrUncaughtHandlerPanic,
                                   ErrResponderIsClosed}
       /\ (parentDone /\ pc[c] = "idle" /\ ev' # ev /\ ev'.kind = "failed" /\ ev'.c = c)
            => (ev'.err = ErrContextCompleted /\ ev'.cancelled /\ rclosed')]_vars

\* The parent token was cancelled while the only Send made was waiting for its
\* reply, and that Send has returned SendTimeout without setting the closed flag.
C24_TimedOutThoughCancelled ==
  /\ parentDone /\ ~rclosed /\ counter = MaxIdLife
  /\ ev.kind = "failed" /\ ev.err = ErrSendTimeout /\ ~ev.cancelled
  /\ \A c \in Callers : pc[c] = "idle"

\* C25 as stated -- a ListenAndHandle call made with the parent token cancelled,
\* and whose listen timer has not elapsed, sets the closed flag and returns
\* ContextCompleted without receiving a request, also when one is queued.
C25_CancelWins ==
  [][(parentDone /\ (LAHCtx \/ LAHRecv))
       => /\ ev'.kind = "lah" /\ ev'.err = ErrContextCompleted
          /\ sclosed' /\ rpc' = "idle" /\ ch' = ch]_vars

\* C25 -- a ListenAndHandle call made with the parent token cancelled takes one of
\* the cases of its select that are ready: the token's, and then it sets the
\* closed flag and returns ContextCompleted without receiving or handling
\* anything; or, when a request is queued, the receive, and then it leaves the
\* flag alone and hands the request to the handler, or answers it with
\* ResponderClosed if the flag was set; or the timer's.  With nothing queued it
\* never reaches the handler.
C25_CancelOrWork ==
  [][parentDone =>
       /\ LAHCtx =>
            /\ sclosed' /\ rpc' = "idle"
            /\ ev'.kind = "lah" /\ ev'.err = ErrContextCompleted /\ ~ev'.handled
            /\ UNCHANGED <<ch, rout, reqCount, recCh>>
       /\ LAHRecv =>
            /\ ch # <<>> /\ Len(ch') = Len(ch) - 1
            /\ sclosed' = sclosed
            /\ rpc' = IF sclosed THEN "closedReply" ELSE "call"
       /\ (rpc = "idle" /\ ch = <<>>) => rpc' = "idle"
       /\ (rpc = "idle" /\ ev' # ev /\ ev'.kind = "lah")
            => /\ ev'.err \in {ErrContextCompleted, ErrNil, ErrRequestorGoneAway}
               /\ ~ev'.handled /\ UNCHANGED ch]_vars

\* The handler is running for a request that was queued when the parent token was
\* cancelled: the call that received it was made with the token cancelled, and
\* the Responder's closed flag is not set.
C25_HandledThoughCancelled ==
  /\ parentDone /\ ~sclosed
  /\ rpc = "running" /\ rout = calc(Payload(1))
  /\ pc[1] = "recv" /\ stamp[1] = rsid

\* C26 -- Closed-Responder reply.  A ListenAndHandle call that receives a request
\* with the closed flag set does not enter the handler and leaves the gone-away
\* deadline alone; it rents one Resp with the request's id, no data and
\* ResponderClosed, pushes it onto the reply channel of that request and returns
\* nil; a Send that takes such a Resp for its request returns (nil, ResponderClosed).
C26_ClosedReply ==
  [][/\ (LAHRecv /\ sclosed) =>
          /\ rpc' = "closedReply" /\ expired' = expired
          /\ UNCHANGED <<rout, reqCount, recCh, respOut>>
     /\ ClosedReply =>
          /\ rpc' = "idle"
          /\ ev'.kind = "lah" /\ ev'.err = ErrNil /\ ~ev'.handled /\ ev'.sawClosed
          /\ respOut' = respOut + 1
          /\ UNCHANGED <<rout, reqCount, expired>>
          /\ \E k \in ChanObjs :
               /\ recCh' = [recCh EXCEPT ![k] =
                              Append(recCh[k], Resp(rsid, Nil, ErrResponderIsClosed))]
               /\ \A c \in Callers : stamp[c] = rsid => rq[creq[c]].c = k
     /\ \A c \in Callers :
          (RecvResp(c) /\ fcur[rq[creq[c]].c] = Resp(stamp[c], Nil, ErrResponderIsClosed))
            => (ev'.kind = "received" /\ ev'.data = Nil /\ ev'.err = ErrResponderIsClosed)]_vars

\* After Close, a call has received the request of a Send that had timed out and
\* is about to answer it: the req it holds has been cleared, so it has neither
\* the id nor the reply channel that the request was pushed with.
C26_ReplyToClearedReq ==
  /\ rpc = "closedReply" /\ done /\ sclosed /\ sawClosed
  /\ rsid # 0 /\ rq[rreq].id = 0 /\ rq[rreq].c = Nil
  /\ \A c \in Callers : pc[c] = "idle"

\* C27 -- Gone-away decision.  A ListenAndHandle call returns RequestorGoneAway
\* only from the listen-timer case and only when the clock is strictly after the
\* deadline, and it sets the closed flag then; a timer that elapses at or before
\* the deadline makes the call return nil with no handler run and the flag and
\* the deadline as they were; the deadline is set by the first call, and moved,
\* to now + gone_away_timeout, only by the receive of a request with the flag unset.
C27_GoneAwayDecision ==
  [][/\ (ev' # ev /\ ev'.kind = "lah" /\ ev'.err = ErrRequestorGoneAway)
          => (ListenTimer /\ now > hasGoneAway /\ sclosed')
     /\ ListenTimer =>
          IF now > hasGoneAway
            THEN ev'.kind = "lah" /\ ev'.err = ErrRequestorGoneAway /\ sclosed'
            ELSE /\ ev'.kind = "lah" /\ ev'.err = ErrNil /\ ~ev'.handled
                 /\ rpc' = "idle"
                 /\ UNCHANGED <<sclosed, hasGoneAway, rout, reqCount, ch, recCh>>
     /\ hasGoneAway' # hasGoneAway =>
          /\ hasGoneAway' = now + GoneAwayTimeout
          /\ \/ ListenCall /\ ~initialised
             \/ ListenRecv /\ ~sclosed
     /\ (ListenCall /\ ~initialised) => hasGoneAway' = now + GoneAwayTimeout
     /\ (ListenRecv /\ ~sclosed) => hasGoneAway' = now + GoneAwayTimeout
     /\ (ListenRecv /\ sclosed) => (hasGoneAway' = hasGoneAway /\ rpc' = "closedReply")]_vars

\* The listen timer of a call has elapsed at the very instant of the deadline:
\* the call has returned nil, the flag is unset and the loop goes on.
C27_OnTheDeadline ==
  /\ ev.kind = "lah" /\ ev.err = ErrNil /\ ~ev.handled
  /\ initialised /\ now = hasGoneAway /\ now = ldue
  /\ rpc = "idle" /\ ~sclosed

\* C28 -- Queued Req stability.  While the entry of a request is on the work
\* channel, the req it points to holds the id and the payload it was pushed
\* with and a reply channel that expects that id; while the Responder holds a
\* req it has received, the same goes for its id and reply channel.
C28_QueuedReqStable ==
  /\ \A i \in DOMAIN ch :
       /\ rq[ch[i].r].id = ch[i].sid
       /\ rq[ch[i].r].data = Payload(ch[i].c)
       /\ rq[ch[i].r].c # Nil
       /\ cid[rq[ch[i].r].c] = ch[i].sid
  /\ rreq # Nil =>
       /\ rq[rreq].id = rsid
       /\ rq[rreq].c # Nil
       /\ cid[rq[rreq].c] = rsid

\* A Send has returned SendTimeout and the entry it pushed is still queued: the
\* req the entry points to has lost its id, its payload and its reply channel.
C28_ClearedWhileQueued ==
  \E i \in DOMAIN ch :
    /\ ev.kind = "failed" /\ ev.err = ErrSendTimeout /\ ev.c = ch[i].c
    /\ pc[ev.c] = "idle"
    /\ ch[i].sid # 0 /\ rq[ch[i].r] = EmptyReq

C30_DropsClosed ==
  [][\A k \in ChanObjs :
       ((FwdCheck(k) \/ FwdTimeout(k)) /\ fpc[k] # "wait" /\ fpc'[k] = "wait")
         => (respOut' = respOut - 1 /\ respOut' = HeldIn(ChanObjs)')]_vars

\* A forwarder has dropped the reply to a Send that had timed out: no Send is in
\* progress and no Resp is on its way, yet a Resp is still out of the pool.
C30_RespNeverReturned ==
  /\ respOut > 0 /\ HeldIn(ChanObjs) = 0
  /\ rpc = "idle" /\ ch = <<>>
  /\ \A c \in Callers : pc[c] = "idle"
  /\ ev.kind = "lah" /\ ev.handled

\* C31 -- Correlated-chan rental state machine.  The expected id of a chan only
\* changes from 0 to a non-zero id and from a non-zero id to 0; every chan that is
\* in the pool has the expected id 0; and a Resp that a forwarder took from the
\* inbound side while the expected id was 0 is never offered on the outbound side.
C31_RentalStateMachine ==
  [][/\ \A k \in ChanObjs :
          cid'[k] # cid[k] => ((cid[k] = 0 /\ cid'[k] # 0) \/ (cid[k] # 0 /\ cid'[k] = 0))
     /\ \A k \in FreeChans' : cid'[k] = 0
     /\ \A k \in ChanObjs : (FwdCheck(k) /\ fidle[k]) => fpc'[k] # "fwd"]_vars

\* A forwarder is offering a Resp that it took while its chan was in the pool:
\* the Resp carries the id of the rental that has begun since, and the Send of
\* that rental has not pushed its request yet.
C31_IdleRespOffered ==
  \E k \in ChanObjs, c \in Callers :
    /\ fpc[k] = "fwd" /\ fidle[k]
    /\ pc[c] = "submit" /\ rq[creq[c]].c = k
    /\ fcur[k].id = stamp[c] /\ cid[k] = stamp[c]

\* C32 -- No phantom reply across rentals.  A forwarder starts a hand-off for a
\* Resp whose id is the expected id of its chan, the id of the rental in progress;
\* the receiver that takes the Resp from the outbound side does so during that
\* same rental, so the Resp it takes was pushed for its own rental.
C32_NoPhantomReply ==
  [][\A c \in Callers :
       RecvResp(c) =>
         /\ fcur[rq[creq[c]].c].id = cid[rq[creq[c]].c]
         /\ fcur[rq[creq[c]].c].id = stamp[c]]_vars

\* A forwarder is still offering the Resp of a rental that has ended, and the
\* Send of a later rental of the same chan is waiting on the outbound side with
\* nothing else on its way to it.
C32_LeftoverOnOffer ==
  \E c \in Callers :
    LET k == rq[creq[c]].c
    IN /\ pc[c] = "recv" /\ k # Nil
       /\ fpc[k] = "fwd" /\ fcur[k].id # 0 /\ fcur[k].id < cid[k]
       /\ cid[k] = stamp[c] /\ recCh[k] = <<>>

\* C33 -- Close leaves the work channel open.  The steps of a Close call set the
\* Responder's closed flag and close the done signal and leave the work channel
\* and every Send as they are; the entries of the channel change only by the
\* push of a Send, which adds one at the end, and by the Responder's receive,
\* which takes the first; and no Send ends otherwise than with one of the
\* errors of its send path, so none meets a panic of a push on a closed channel.
C33_WorkChannelOpen ==
  [][/\ \A p \in Closers :
          /\ CloseFlag(p) => (sclosed' /\ UNCHANGED <<ch, callerVars, poolVars>>)
          /\ CloseOnce(p) => (sclosed' /\ done' /\ UNCHANGED <<ch, callerVars, poolVars>>)
     /\ ch' # ch =>
          \/ (\E c \in Callers : SubmitPush(c))
               /\ Len(ch') = Len(ch) + 1 /\ SubSeq(ch', 1, Len(ch)) = ch
          \/ LAHRecv /\ ch' = Tail(ch)
     /\ (ev' # ev /\ ev'.kind = "failed") =>
          ev'.err \in {ErrCommsChannelIsClosed, ErrUnableToSendRequest, ErrSendTimeout,
                       ErrRequestorIsClosed, ErrContextCompleted}]_vars

\* A Send that was called after Close had closed the done signal has pushed its
\* request, which is queued, and waits for the reply; no ListenAndHandle call
\* has been made since.
C33_PushedAfterClose ==
  \E c \in Callers :
    /\ done /\ sclosed /\ once /\ ~cpanic
    /\ pc[c] = "recv" /\ quiet[c]
    /\ \E i \in DOMAIN ch : ch[i].c = c /\ ch[i].sid = stamp[c]

\* C34 -- Safe-send drop.  When handle pushes its Resp through a reply-channel
\* handle that a timed-out Send has torn down, the push panics inside sendResp:
\* the panic is recovered, the Resp that was rented for the push is closed, so
\* that the count of rented Resps is what it was, nothing is put on any
\* correlated chan, the call returns nil with the Responder's flags as they
\* were, and the Responder is ready for its next call.
C34_SafeSendDrop ==
  [][((HandlerReturn /\ rchan = Nil) \/ (HandlerPanic /\ rq[rreq].c = Nil)) =>
       /\ respOut' = respOut
       /\ UNCHANGED <<recCh, fpc, fcur, fretries, callerVars, poolVars, flagVars, ch>>
       /\ ev'.kind = "lah" /\ ev'.err = ErrNil /\ ev'.handled
       /\ rpc' = "idle" /\ rreq' = Nil /\ rchan' = Nil /\ rout' = NoOut]_vars

\* A call that ran the handler has returned and its Resp was dropped in
\* sendResp: no Resp is out of the pool or on its way, and the next request is
\* queued for the call that follows.
C34_DroppedAndReady ==
  /\ ev.kind = "lah" /\ ev.handled /\ ev.err = ErrNil
  /\ respOut = 0 /\ HeldIn(ChanObjs) = 0
  /\ rpc = "idle" /\ ~sclosed /\ ch # <<>>

\* The errors with which a Send that has rented a req can return without a Resp.
ExitErrs ==
  {ErrCommsChannelIsClosed, ErrUnableToSendRequest, ErrSendTimeout, ErrUncaughtSendPanic}

\* C35 -- Req returned on every exit of Send.  A Send that has rented a req
\* leaves attemptSend with a Resp it received or with CommsChannelClosed,
\* UnableToSendRequest, SendTimeout or UncaughtSendPanic (and then with no
\* payload); in the step in which it returns, the req it held and that req's
\* correlated chan go back to their pools, the chan with the expected id 0 and
\* the req with its id, payload and handle cleared; and a req or a chan enters
\* its pool in no other step, so each rental is ended by one Put.
C35_ReqReturned ==
  [][/\ \A c \in Callers :
          (pc[c] \in {"submit", "recv"} /\ pc'[c] = "idle") =>
            /\ ev'.c = c /\ ev'.kind \in {"received", "failed"}
            /\ ev'.kind = "failed" => (ev'.err \in ExitErrs /\ ev'.data = Nil)
            /\ creq'[c] = Nil
            /\ creq[c] \in FreeReqs' /\ rq'[creq[c]] = EmptyReq
            /\ rq[creq[c]].c \in FreeChans' /\ cid'[rq[creq[c]].c] = 0
     /\ \A r \in ReqObjs :
          (r \in RentedReqs /\ r \notin RentedReqs') =>
            \E c \in Callers : creq[c] = r /\ pc[c] \in {"submit", "recv"} /\ pc'[c] = "idle"
     /\ \A k \in ChanObjs :
          (k \in RentedChans /\ k \notin RentedChans') =>
            \E c \in Callers : creq[c] # Nil /\ rq[creq[c]].c = k /\ pc'[c] = "idle"
     /\ \A c \in Callers :
          (pc[c] \in {"submit", "recv"} /\ pc'[c] # "idle") =>
            (creq'[c] = creq[c] /\ rq'[creq[c]] = rq[creq[c]])]_vars

\* A Send whose submit timer elapsed three times before it could push has
\* returned UnableToSendRequest: its req and its chan are back in their pools
\* and cleared, and no req or chan is rented.
C35_GaveUpAndReturned ==
  /\ ev.kind = "failed" /\ ev.err = ErrUnableToSendRequest
  /\ pc[ev.c] = "idle" /\ creq[ev.c] = Nil
  /\ RentedReqs = {Nil} /\ RentedChans = {}
  /\ \A r \in ReqObjs : rq[r] = EmptyReq
  /\ \A k \in ChanObjs : cid[k] = 0
  /\ nreq >= 1 /\ nchan >= 1

\* C36 -- Id wrap-around.  The counter holds the id issued last.  The call that
\* follows the one which returned the maximum returns 1, and the calls after it
\* return 2, 3, ...: each returns the id issued last plus one; the id 0 is never
\* returned and the counter never rests at 0.
C36_WrapAround ==
  [][/\ counter' \in 1..UintMax
     /\ \A c \in Callers :
          (pc[c] = "idle" /\ pc'[c] = "submit") =>
            /\ rq'[creq'[c]].id = counter' /\ stamp'[c] = counter'
            /\ counter = UintMax => counter' = 1
            /\ counter \in 1..(UintMax - 1) => counter' = counter + 1
     /\ counter' # counter => \E c \in Callers : pc[c] = "idle" /\ pc'[c] = "submit"]_vars

\* One Send still holds the maximum; the call after it returned 1, to a Send
\* that has given up since, and the call after that has returned 2.
C36_SecondAfterMax ==
  \E c, d \in Callers :
    /\ creq[d] # Nil /\ stamp[d] = UintMax
    /\ creq[c] # Nil /\ stamp[c] = 2 /\ rq[creq[c]].id = 2 /\ counter = 2

\* C37 -- Handler runs at most once per Send.  The handler is never invoked a
\* second time on the payload of one Send.
C37_HandlerOnce ==
  hagain = {}

\* The handler is running on the payload of a waiting Send for the second time:
\* the first invocation came from the entry that a timed-out Send had left on
\* the work channel for the same req, this one from the Send's own entry.
C37_HandledTwice ==
  \E c \in Callers :
    /\ pc[c] = "recv" /\ stamp[c] \in hagain
    /\ rpc = "running" /\ rreq = creq[c] /\ rsid = stamp[c]
    /\ rout = calc(Payload(c))

\* C38: resp.close is idempotent in effect.  Closing a rented Resp clears its id,
\* its data, its error and its return hook and puts it in the pool once; closing
\* the same Resp again before it is rented again changes nothing and does not put
\* it in the pool a second time.  So the pool never holds an object twice, the
\* objects in the pool are the cleared ones, and the rented ones carry the hook.
C38_CloseIdempotent ==
  /\ [](\A x \in 1..nresp :
          /\ rpool[x] <= 1
          /\ rpool[x] = 1 <=> ~rs[x].returner
          /\ (rpool[x] = 1) => (rs[x] = EmptyResp))
  /\ [][\A x \in 1..nresp :
          (rlast'.op = "close" /\ rlast'.x = x) =>
            /\ Len(rs') = nresp
            /\ \A y \in (1..nresp) \ {x} : rs'[y] = rs[y] /\ rpool'[y] = rpool[y]
            /\ IF rpool[x] = 0
                 THEN /\ rlast'.put
                      /\ rs'[x] = EmptyResp
                      /\ rpool'[x] = 1
                 ELSE /\ ~rlast'.put
                      /\ rs'[x] = rs[x]
                      /\ rpool'[x] = rpool[x]]_vars

\* A Resp has been closed and then closed again while it was still in the pool:
\* the second close put nothing, and the pool holds the cleared Resp once.
C38_ClosedAgain ==
  \E x \in 1..nresp :
    /\ rlast = [op |-> "close", x |-> x, put |-> FALSE]
    /\ rpool[x] = 1
    /\ rs[x] = EmptyResp

\* The timer x has fired for its holder, a value waiting in t.C or received from
\* it, before the duration of its acquisition has elapsed.
FiredEarly(x) ==
  /\ x \in HeldTimers
  /\ tm[x].fire \/ tread[x]
  /\ tclock < tacq[x].at + tacq[x].d

\* C39: no stale timer fire.  A timer handed out by acquireTimer(d) does not fire
\* before d has elapsed since that acquisition, whatever the earlier life of the
\* handle: released before firing, released after firing with the fire unread,
\* released after the fire was read, or freshly constructed by the pool.
C39_NoStaleFire ==
  \A x \in TimerObjs : ~FiredEarly(x)

\* A handle that the pool has just constructed was acquired for a duration of 2,
\* and its holder has received from t.C at the time of the acquisition.
C39_FreshFiredAtOnce ==
  \E x \in TimerObjs :
    /\ x \in HeldTimers
    /\ thist[x] = "fresh"
    /\ tacq[x].d = 2
    /\ tread[x]
    /\ tclock = tacq[x].at

\* The callers that hold a rented req: reqPool.Get has returned it and it has not
\* been passed to reqPool.Put.
Renters == {c \in Callers : pc[c] \in {"submit", "recv"}}

\* C40: rental binding.  From the return of the req pool's Get until the req is
\* passed to Put, the req's id is not zero, the expected id of the correlated
\* chan it holds is the req's id, and no other rented req holds the same
\* correlated chan, whatever the interleaving of the callers' Gets and Puts.
C40_RentalBinding ==
  \A c \in Renters :
    LET r == creq[c]
    IN /\ r \in ReqObjs
       /\ rq[r].id # 0
       /\ rq[r].c \in ChanObjs
       /\ cid[rq[r].c] = rq[r].id
       /\ \A d \in Renters \ {c} : creq[d] # r /\ rq[creq[d]].c # rq[r].c

\* A caller holds a rented req whose chan was rented before by the other caller,
\* which is still inside Put: it has given the chan back and its req still
\* points to it.
C40_ChanRentedAgainDuringPut ==
  \E c, d \in Callers :
    /\ c \in Renters
    /\ pc[d] = "put"
    /\ rq[creq[d]].c = rq[creq[c]].c
    /\ rq[creq[d]].id # rq[creq[c]].id

====
